---- MODULE Spec2Model ----
(***************************************************************************)
(* Backtesting simulation of the trading bots.                             *)
(*                                                                         *)
(* Two simulators exist in the repository and both are modelled:           *)
(*   - backend/utils/backtest.py      class BacktestEngine  (order book of *)
(*     simulated MARKET/LIMIT orders, commission, fills on the next bar);  *)
(*   - backend/backtesting/engine.py  run_backtest  (signal executed on    *)
(*     the bar's close, average entry price, realized PnL).                *)
(* The metrics of backend/backtesting/metrics.py (win rate, profit factor, *)
(* maximum drawdown) are operators, applied to bounded inputs by           *)
(* SpecMetrics; the level functions of backend/utils/grid.py are applied   *)
(* by SpecLevels.                                                          *)
(* Spec is the general specification; SpecGrid, SpecDCA, SpecFaults,       *)
(* SpecFill, SpecPairs and SpecGaps start the same actions from particular *)
(* inputs.                                                                 *)
(*                                                                         *)
(* The live bots are modelled as well: the registry of running bots and   *)
(* the start and stop requests of backend/app/bots/routes.py               *)
(* (SpecRegistry), the run task of backend/bots/base_bot.py under          *)
(* overlapping start() and stop() calls (SpecBaseBot), and the cycle of    *)
(* backend/bots/momentum_bot.py (SpecCycle).  Coroutines run on one event  *)
(* loop: an action is the code between two awaits that suspend.            *)
(*                                                                         *)
(* Numbers.  Prices are integers.  BacktestEngine money is kept in         *)
(* 1/Scale quote units so that the 0.001 commission is exact.  Quantities  *)
(* of run_backtest are counted in quanta of 0.5e-9 base units, so that the *)
(* 1e-9 tolerance of the code (Epsilon quanta) separates real quantities.  *)
(* Floating-point rounding is not modelled.  The average entry price is a  *)
(* fraction <<numerator, denominator>> in lowest terms.                    *)
(***************************************************************************)
EXTENDS Bags, FiniteSets, Integers, Sequences, TLC

(* ------------------------------ bounds --------------------------------- *)
MaxBars == 3
MaxRuns == 2
MaxTrades == 2
MaxPoints == 3
MaxLevels == 2
MaxRequests == 2
MaxTasks == 2
MaxCycles == 3

(* ------------------------- program constants --------------------------- *)
Scale == 1000
DEFAULT_COMMISSION_PERCENT == 1
Epsilon == 2
DEFAULT_RSI_OVERSOLD == 30
DEFAULT_RSI_OVERBOUGHT == 70
DEFAULT_ORDER_QUANTITY == 1
DEFAULT_MACD_FAST == 12
DEFAULT_MACD_SLOW == 26
DEFAULT_PURCHASE_FREQUENCY_HOURS == 168
DEFAULT_EMA_LONG_PERIOD == 26

None == 0 - 1
NaN == 0 - 2
\* an indicator reading that stands for the library raising on the window
Raise == 0 - 3

VARIABLES
    engine,              \* which simulator this behaviour runs
    bot_type,            \* archetype tag of the configuration
    bot_settings,        \* settings / parameters of the configuration
    initial_capital,
    historical_data,     \* the bars; those not read yet are not chosen yet
    grid_utils,          \* outcome of the guarded import of the grid helpers
    pc,                  \* position of the simulator
    run_no,              \* how many times run() was entered on this engine
    i,                   \* loop variable of the bar loop: index of the next bar
    current_step, current_time,
    quote_balance, base_balance, portfolio_value,
    open_orders, trades, equity_curve,
    simulated_bot_state, grid_levels,
    balance, position_quantity, average_entry_price,   \* ledger of run_backtest
    last_price, grid_states, last_buy_timestamp,       \* policy state of run_backtest
    placed,              \* history: bag of every order ever put in open_orders
    results,             \* history: what each finished run returned
    running_bots,        \* app/bots/routes.py: bot id -> registered instance
    bots,                \* the bot instances constructed so far
    tasks,               \* the run tasks created so far by BaseBot.start
    requests,            \* the start/stop requests and calls, and their positions
    cycles,              \* history: indicator values of each MomentumBot cycle
    live_orders          \* history: the orders placed by _execute_trade

beVars == <<pc, run_no, i, current_step, current_time, quote_balance, base_balance,
            portfolio_value, open_orders, trades, equity_curve,
            simulated_bot_state, grid_levels, placed, results>>
rbVars == <<balance, position_quantity, average_entry_price, last_price,
            grid_states, last_buy_timestamp>>
cfgVars == <<engine, bot_type, bot_settings, initial_capital, grid_utils>>
botVars == <<running_bots, bots, tasks, requests, cycles, live_orders>>
vars == <<cfgVars, historical_data, beVars, rbVars, botVars>>

(* ------------------------------ helpers -------------------------------- *)
\* routes.py line 41: no bot is registered, none was constructed, no request
\* has arrived
NoBots ==
    /\ running_bots = <<>>
    /\ bots = <<>>
    /\ tasks = <<>>
    /\ requests = <<>>
    /\ cycles = <<>>
    /\ live_orders = <<>>

Max(a, b) == IF a >= b THEN a ELSE b
Min(a, b) == IF a <= b THEN a ELSE b

\* float comparisons: every comparison with NaN is False
Gt(a, b) == a # NaN /\ b # NaN /\ a > b
Lt(a, b) == a # NaN /\ b # NaN /\ a < b
Ge(a, b) == a # NaN /\ b # NaN /\ a >= b
Le(a, b) == a # NaN /\ b # NaN /\ a <= b

\* dict.get(key, default)
get(d, key, default) == IF key \in DOMAIN d THEN d[key] ELSE default

RECURSIVE SeqToBag(_)
SeqToBag(s) == IF s = <<>> THEN EmptyBag
               ELSE SeqToBag(Tail(s)) (+) SetToBag({Head(s)})

(* ------------------------------ inputs --------------------------------- *)
BotTypes(e) == IF e = "BacktestEngine" THEN {"MomentumBot", "GridBot", "DCABot"}
               ELSE {"Momentum", "Grid", "DCA"}

Prices(bt) == IF bt \in {"GridBot", "Grid"} THEN {1, 2, 3} ELSE {1, 2}
TimeSteps(bt) == IF bt \in {"DCABot", "DCA"} THEN {1, 2} ELSE {1}

\* Indicator values on the window that ends at a bar, as the indicator
\* library returns them: <<RSI, MACD line, signal line, short EMA, long EMA>>.
\* BacktestEngine reads the MACD and signal lines only.
Readings(bt) ==
    CASE bt = "MomentumBot" ->
           {<<NaN, NaN, NaN, NaN, NaN>>, <<50, 1, 2, NaN, NaN>>,
            <<50, 2, 1, NaN, NaN>>, <<50, 1, 1, NaN, NaN>>}
      [] bt = "Momentum" ->
           {<<NaN, NaN, NaN, NaN, NaN>>, <<20, 2, 1, 2, 1>>, <<80, 2, 1, 2, 1>>,
            <<20, 2, 1, 1, 2>>, <<20, 1, 2, 2, 1>>}
      [] OTHER -> {<<NaN, NaN, NaN, NaN, NaN>>}

AllCandles(bt, prev_ts) ==
    { [timestamp |-> prev_ts + d, Open |-> o, High |-> Max(o, c),
       Low |-> Min(o, c), Close |-> c, RSI |-> m[1], MACD |-> m[2],
       Signal |-> m[3], EMA_short |-> m[4], EMA_long |-> m[5]] :
        o \in Prices(bt), c \in Prices(bt), d \in TimeSteps(bt), m \in Readings(bt) }

Candles(bt, prev_ts) ==
    { c \in AllCandles(bt, prev_ts) : bt = "MomentumBot" => c.Open = c.Close }

\* run_backtest reads only the timestamp and the close of a bar
Klines(bt, prev_ts) == { c \in Candles(bt, prev_ts) : c.Open = c.Close }

Settings(bt) ==
    CASE bt = "MomentumBot" -> { [order_quantity |-> 4] }
      [] bt = "GridBot"  -> { [lower_price |-> 1, upper_price |-> 3, num_grids |-> 2,
                               total_investment |-> 4, grid_type |-> "arithmetic"] }
      [] bt = "DCABot"   -> { [purchase_amount |-> 2, purchase_frequency_hours |-> 2] }
      [] bt = "Momentum" -> { [order_quantity |-> q, ema_long_period |-> 1,
                               rsi_oversold |-> DEFAULT_RSI_OVERSOLD,
                               rsi_overbought |-> DEFAULT_RSI_OVERBOUGHT] : q \in {1, 3} }
      [] bt = "Grid"     -> { [lower_bound |-> 1, upper_bound |-> 3, num_grids |-> 3,
                               order_quantity |-> q] : q \in {1, 3} }
      [] bt = "DCA"      -> { [buy_interval_seconds |-> f, order_amount_quote |-> 2] :
                               f \in {2, 3} }

Capitals(bt) ==
    CASE bt = "MomentumBot" -> {5}
      [] bt = "GridBot"     -> {5}
      [] bt = "DCABot"      -> {3}
      [] OTHER              -> {3}

(* ---------------- backend/utils/backtest.py: BacktestEngine ------------ *)
commission_percent == DEFAULT_COMMISSION_PERCENT

\* Position of value v in list l (list.index), 0 when absent (ValueError)
IndexOf(l, v) == IF \E k \in 1..Len(l) : l[k] = v
                 THEN CHOOSE k \in 1..Len(l) : l[k] = v /\ \A j \in 1..(k-1) : l[j] # v
                 ELSE 0

\* grid.calculate_arithmetic_grid_levels; <<>> stands for the None it returns
calculate_arithmetic_grid_levels(lower_price, upper_price, num_grids) ==
    IF lower_price <= 0 \/ upper_price <= lower_price \/ num_grids <= 0 THEN <<>>
    ELSE IF num_grids = 1 THEN << (lower_price + upper_price) \div 2 >>
    ELSE LET price_diff == (upper_price - lower_price) \div num_grids
         IN [k \in 1..(num_grids + 1) |-> lower_price + (k - 1) * price_diff]

RECURSIVE Pow(_, _)
Pow(b, e) == IF e = 0 THEN 1 ELSE b * Pow(b, e - 1)

\* grid.calculate_geometric_grid_levels, for bounds whose ratio has an exact
\* num_grids-th root; <<>> stands for the None it returns
calculate_geometric_grid_levels(lower_price, upper_price, num_grids) ==
    IF lower_price <= 0 \/ upper_price <= lower_price \/ num_grids <= 0 THEN <<>>
    ELSE IF num_grids = 1 THEN << (lower_price + upper_price) \div 2 >>
    ELSE LET ratio == CHOOSE r \in 1..upper_price :
                         Pow(r, num_grids) * lower_price = upper_price
             levels == [k \in 1..(num_grids + 1) |-> lower_price * Pow(ratio, k - 1)]
         IN  [levels EXCEPT ![num_grids + 1] = upper_price]

\* line 171 without the check: every BUY is taken as affordable
sufficient_quote_always(qb, required_quote) == TRUE

\* line 171: a BUY is affordable
sufficient_quote(qb, required_quote) == qb >= required_quote

\* line 179 without the check: every SELL is taken as covered
sufficient_base_always(bb, actual_qty) == TRUE

\* line 179: a SELL is covered by the position
sufficient_base(bb, actual_qty) == bb >= actual_qty

\* line 180 with the commission added instead of deducted
sell_credit_plus(cost, commission) == cost + commission

\* line 180: what a SELL adds to the quote balance
sell_credit(cost, commission) == cost - commission

\* line 172: what a BUY leaves of the quote balance
buy_debit(qb, required_quote) == qb - required_quote

\* line 443 left out: the unfilled order is not put back
drop_order(orders, order) == orders

\* line 443: an order that did not fill is put back in the open orders
keep_order(orders, order) == Append(orders, order)

\* line 465 valued at the Open of the candle
mark_to_market_open(qb, bb, current_candle) == qb + bb * current_candle.Open * Scale

\* line 465: mark-to-market value of the portfolio on a candle
mark_to_market(qb, bb, current_candle) == qb + bb * current_candle.Close * Scale

\* line 129 with the Close of the candle taken
market_fill_price_close(current_candle) == current_candle.Close

\* line 129: a MARKET order fills at the Open of the candle
market_fill_price(current_candle) == current_candle.Open

\* lines 152, 158 with the Low of the candle taken instead of the limit
limit_fill_price_low(order_price, current_candle) == current_candle.Low

\* lines 152, 158: a LIMIT order fills at its limit price
limit_fill_price(order_price, current_candle) == order_price

\* BacktestEngine._simulate_order_fill on balances qb, bb and trade list tr
simulate_order_fill(order, current_candle, qb, bb, tr, now) ==
    LET order_type == order.type
        order_side == order.side
        order_price == order.price
        order_qty == order.qty
        order_quote_qty == order.quoteOrderQty
        unfilled == [filled |-> FALSE, quote_balance |-> qb, base_balance |-> bb, trades |-> tr]
        by_quote == /\ order_side = "BUY" /\ order_quote_qty # None
                    /\ market_fill_price(current_candle) > 0
        market_ok == \/ by_quote
                     \/ order_side = "BUY" /\ order_qty # None
                     \/ order_side = "SELL" /\ order_qty # None
        limit_ok == /\ order_price # None /\ order_qty # None
                    /\ \/ order_side = "BUY" /\ current_candle.Low <= order_price
                       \/ order_side = "SELL" /\ current_candle.High >= order_price
        filled == CASE order_type = "MARKET" -> market_ok
                    [] order_type = "LIMIT" -> limit_ok
                    [] OTHER -> FALSE
        fill_price == IF order_type = "MARKET" THEN market_fill_price(current_candle)
                      ELSE limit_fill_price(order_price, current_candle)
        actual_qty == IF order_type = "MARKET" /\ by_quote
                      THEN order_quote_qty \div fill_price ELSE order_qty
        cost == actual_qty * fill_price * Scale
        commission == actual_qty * fill_price * commission_percent
        required_quote == cost + commission
        record(q, b) == [timestamp |-> now, order_id |-> order.id, type |-> order_type,
                         side |-> order_side, price |-> fill_price, quantity |-> actual_qty,
                         cost |-> cost, commission |-> commission,
                         quote_balance |-> q, base_balance |-> b]
        done(q, b) == [filled |-> TRUE, quote_balance |-> q, base_balance |-> b,
                       trades |-> Append(tr, record(q, b))]
    IN  IF ~(filled /\ fill_price # None /\ actual_qty # None /\ actual_qty > 0) THEN unfilled
        ELSE IF order_side = "BUY"
             THEN IF sufficient_quote(qb, required_quote)
                  THEN done(buy_debit(qb, required_quote), bb + actual_qty)
                  ELSE unfilled
        ELSE IF order_side = "SELL"
             THEN IF sufficient_base(bb, actual_qty)
                  THEN done(qb + sell_credit(cost, commission), bb - actual_qty)
                  ELSE unfilled
        ELSE done(qb, bb)

\* lines 418-440 with the opposing order placed at the level of the fill itself
OpposingOrders_same_level(order, levels, step) ==
    IF bot_type = "GridBot" /\ order.type = "LIMIT" /\ IndexOf(levels, order.price) # 0
    THEN << [id |-> <<"sim_grid", order.price, step>>, type |-> "LIMIT",
             side |-> IF order.side = "BUY" THEN "SELL" ELSE "BUY",
             price |-> order.price, qty |-> order.qty, quoteOrderQty |-> None] >>
    ELSE <<>>

\* run(), lines 418-440: the opposing grid order placed when a LIMIT order fills
OpposingOrders(order, levels, step) ==
    IF bot_type = "GridBot" /\ order.type = "LIMIT" /\ levels # <<>>
    THEN LET level_index == IndexOf(levels, order.price)
         IN  IF level_index = 0 THEN <<>>
             ELSE IF order.side = "BUY" /\ level_index + 1 <= Len(levels)
             THEN << [id |-> <<"sim_grid_sell", levels[level_index + 1], step>>,
                      type |-> "LIMIT", side |-> "SELL",
                      price |-> levels[level_index + 1], qty |-> order.qty,
                      quoteOrderQty |-> None] >>
             ELSE IF order.side = "SELL" /\ level_index - 1 >= 1
             THEN << [id |-> <<"sim_grid_buy", levels[level_index - 1], step>>,
                      type |-> "LIMIT", side |-> "BUY",
                      price |-> levels[level_index - 1], qty |-> order.qty,
                      quoteOrderQty |-> None] >>
             ELSE <<>>
    ELSE <<>>

\* run(), lines 411-443: the fill pass over a copy of the open orders.
\* st = [quote_balance, base_balance, trades, open_orders, placed]
RECURSIVE FillPass(_, _, _, _, _)
FillPass(orders_to_process, current_candle, levels, step, st) ==
    IF orders_to_process = <<>> THEN st
    ELSE LET order == Head(orders_to_process)
             r == simulate_order_fill(order, current_candle, st.quote_balance,
                                      st.base_balance, st.trades, current_candle.timestamp)
             opposing == OpposingOrders(order, levels, step)
             st1 == IF r.filled
                    THEN [quote_balance |-> r.quote_balance, base_balance |-> r.base_balance,
                          trades |-> r.trades,
                          open_orders |-> st.open_orders \o opposing,
                          placed |-> st.placed (+) SeqToBag(opposing)]
                    ELSE [st EXCEPT !.open_orders = keep_order(@, order)]
         IN  FillPass(Tail(orders_to_process), current_candle, levels, step, st1)

\* indicators.calculate_macd, lines 83-86: the periods it rejects with ValueError
calculate_macd_raises(fast_period, slow_period) ==
    ~(fast_period > 0 /\ slow_period > 0) \/ fast_period >= slow_period

\* line 311 with the interval added to the time that was scheduled
next_purchase_scheduled(next_purchase_ts, now_ts, purchase_frequency_hours) ==
    IF next_purchase_ts = None THEN now_ts + purchase_frequency_hours
    ELSE next_purchase_ts + purchase_frequency_hours

\* lines 305, 311: the next purchase is due one interval after this bar
next_purchase(next_purchase_ts, now_ts, purchase_frequency_hours) ==
    now_ts + purchase_frequency_hours

\* BacktestEngine._process_bot_actions: <<new orders, new simulated_bot_state>>
process_bot_actions(current_candle, step, state) ==
    CASE bot_type = "MomentumBot" ->
           LET macd_fast == get(bot_settings, "macd_fast", DEFAULT_MACD_FAST)
               macd_slow == get(bot_settings, "macd_slow", DEFAULT_MACD_SLOW)
               order_quantity == get(bot_settings, "order_quantity", DEFAULT_ORDER_QUANTITY)
               latest_macd == current_candle.MACD
               latest_signal == current_candle.Signal
               raised == \/ calculate_macd_raises(macd_fast, macd_slow)
                         \/ Raise \in {latest_macd, latest_signal}
               prev == state.last_indicators
               state1 == [state EXCEPT !.last_indicators = <<latest_macd, latest_signal>>]
               buy_signal == Gt(latest_macd, latest_signal) /\ prev # <<>> /\ Le(prev[1], prev[2])
               sell_signal == Lt(latest_macd, latest_signal) /\ prev # <<>> /\ Ge(prev[1], prev[2])
           IN  IF raised THEN << <<>>, state >>
               ELSE IF buy_signal /\ ~state.position_open
               THEN << << [id |-> <<"sim_buy", step>>, type |-> "MARKET", side |-> "BUY",
                           price |-> None, qty |-> order_quantity, quoteOrderQty |-> None] >>,
                       [state1 EXCEPT !.position_open = TRUE] >>
               ELSE IF sell_signal /\ state.position_open
               THEN << << [id |-> <<"sim_sell", step>>, type |-> "MARKET", side |-> "SELL",
                           price |-> None, qty |-> order_quantity, quoteOrderQty |-> None] >>,
                       [state1 EXCEPT !.position_open = FALSE] >>
               ELSE << <<>>, state1 >>
      [] bot_type = "DCABot" ->
           LET purchase_amount == get(bot_settings, "purchase_amount", None)
               purchase_frequency_hours == get(bot_settings, "purchase_frequency_hours",
                                               DEFAULT_PURCHASE_FREQUENCY_HOURS)
               now_ts == current_candle.timestamp
               next_purchase_ts == state.next_purchase_time
               buy == << [id |-> <<"sim_dca", step>>, type |-> "MARKET", side |-> "BUY",
                          price |-> None, qty |-> None, quoteOrderQty |-> purchase_amount] >>
               state1 == [state EXCEPT !.last_purchase_time = now_ts,
                                       !.next_purchase_time =
                                           next_purchase(next_purchase_ts, now_ts,
                                                         purchase_frequency_hours)]
           IN  IF purchase_amount = None THEN << <<>>, state >>
               ELSE IF next_purchase_ts = None THEN << buy, state1 >>
               ELSE IF now_ts >= next_purchase_ts THEN << buy, state1 >>
               ELSE << <<>>, state >>
      [] OTHER -> << <<>>, state >>

(* --------------- backend/backtesting/engine.py: run_backtest ----------- *)
Abs(x) == IF x < 0 THEN 0 - x ELSE x

RECURSIVE GCD(_, _)
GCD(a, b) == IF b = 0 THEN a ELSE GCD(b, a % b)

\* the float n/d (d > 0), kept as a fraction in lowest terms
Frac(n, d) == IF n = 0 THEN <<0, 1>>
              ELSE LET g == GCD(Abs(n), d) IN <<n \div g, d \div g>>

NoValue == <<>>

\* np.linspace(lower, upper, n).tolist() for n > 1
linspace(lower, upper, n) ==
    [k \in 1..n |-> lower + ((k - 1) * (upper - lower)) \div (n - 1)]

\* line 158 with the levels taken from the highest to the lowest
reversed(l) == [k \in 1..Len(l) |-> l[Len(l) + 1 - k]]

\* sorted(grid_levels)
RECURSIVE sorted(_)
sorted(l) == IF l = <<>> THEN <<>>
             ELSE LET m == CHOOSE k \in 1..Len(l) : \A j \in 1..Len(l) : l[k] <= l[j]
                  IN <<l[m]>> \o sorted(SubSeq(l, 1, m - 1) \o SubSeq(l, m + 1, Len(l)))

no_signal(states) == [signal |-> "None", trade_quantity |-> 0, grid_states |-> states]

\* line 136 without the test: a BUY reading buys whatever is held
flat_or_not(pos) == TRUE

\* line 136: only buy if flat
flat(pos) == pos = 0

\* lines 104-150: the Momentum decision on the indicator values of the bar
momentum_policy(kline, pos) ==
    LET rsi_oversold == get(bot_settings, "rsi_oversold", DEFAULT_RSI_OVERSOLD)
        rsi_overbought == get(bot_settings, "rsi_overbought", DEFAULT_RSI_OVERBOUGHT)
        order_qty == get(bot_settings, "order_quantity", 0)
        latest_rsi == kline.RSI
        latest_macd_line == kline.MACD
        latest_macd_signal == kline.Signal
        latest_ema_short == kline.EMA_short
        latest_ema_long == kline.EMA_long
        readings == {latest_rsi, latest_macd_line, latest_macd_signal,
                     latest_ema_short, latest_ema_long}
        any_nan == NaN \in readings
        raised == Raise \in readings
        buy_condition == /\ latest_rsi < rsi_oversold
                         /\ latest_macd_line > latest_macd_signal
                         /\ latest_ema_short > latest_ema_long
                         /\ flat(pos)
        sell_condition == /\ (latest_rsi > rsi_overbought \/ latest_ema_short < latest_ema_long)
                          /\ pos > 0
    IN  IF raised \/ any_nan THEN no_signal(grid_states)
        ELSE IF buy_condition
             THEN [signal |-> "BUY", trade_quantity |-> order_qty, grid_states |-> grid_states]
        ELSE IF sell_condition
             THEN [signal |-> "SELL", trade_quantity |-> pos, grid_states |-> grid_states]
        ELSE no_signal(grid_states)

\* lines 157-180: the scan of the levels, in ascending order, from position k
RECURSIVE grid_policy(_, _, _, _, _, _)
grid_policy(levels, k, states, current_price, bal, pos) ==
    IF k > Len(levels) THEN no_signal(states)
    ELSE LET level == levels[k]
             order_qty_per_grid == get(bot_settings, "order_quantity", 0)
             next == grid_policy(levels, k + 1, states, current_price, bal, pos)
             bought_levels_below == { lvl \in DOMAIN states : states[lvl] = "bought" /\ lvl < level }
             level_to_reset == CHOOSE lvl \in bought_levels_below :
                                   \A o \in bought_levels_below : o <= lvl
         IN  IF last_price > level /\ level >= current_price /\ states[level] = "empty"
             THEN IF bal >= order_qty_per_grid * current_price
                  THEN [signal |-> "BUY", trade_quantity |-> order_qty_per_grid,
                        grid_states |-> [states EXCEPT ![level] = "bought"]]
                  ELSE next
             ELSE IF last_price < level /\ level <= current_price /\ states[level] = "empty"
             THEN IF bought_levels_below # {} /\ pos >= order_qty_per_grid
                  THEN [signal |-> "SELL", trade_quantity |-> order_qty_per_grid,
                        grid_states |-> [states EXCEPT ![level_to_reset] = "empty"]]
                  ELSE next
             ELSE next

\* lines 186-198: the DCA decision; the fourth field is the new last_buy_timestamp
dca_policy(kline, bal) ==
    LET interval_ms == bot_settings.buy_interval_seconds
        order_amount == bot_settings.order_amount_quote
    IN  IF kline.timestamp - last_buy_timestamp >= interval_ms /\ bal >= order_amount
        THEN [signal |-> "BUY", trade_quantity |-> order_amount \div kline.Close,
              grid_states |-> grid_states, last_buy_timestamp |-> kline.timestamp]
        ELSE [signal |-> "None", trade_quantity |-> 0,
              grid_states |-> grid_states, last_buy_timestamp |-> last_buy_timestamp]

\* lines 205-209: the average entry price after a BUY
weighted_average(avg, pos, trade_quantity, current_price) ==
    IF pos + trade_quantity > Epsilon
    THEN Frac(avg[1] * pos + trade_quantity * current_price * avg[2],
              avg[2] * (pos + trade_quantity))
    ELSE Frac(current_price, 1)

\* lines 230, 276 without the quantity factor
realized_pnl_unit(price, avg, quantity) == Frac(price * avg[2] - avg[1], avg[2])

\* lines 230, 276: (price - average entry price) * quantity
realized_pnl(price, avg, quantity) == Frac((price * avg[2] - avg[1]) * quantity, avg[2])

\* lines 201-255: execution of the signal on the ledger led = [balance,
\* position_quantity, average_entry_price, trades]
execute_signal(signal, trade_quantity, current_price, current_timestamp, led) ==
    IF signal = "BUY" /\ led.balance > 0 /\ trade_quantity > 0
    THEN LET order_cost == trade_quantity * current_price
             new_avg == weighted_average(led.average_entry_price, led.position_quantity,
                                         trade_quantity, current_price)
         IN  IF led.balance >= order_cost
             THEN [balance |-> led.balance - order_cost,
                   position_quantity |-> led.position_quantity + trade_quantity,
                   average_entry_price |-> new_avg,
                   trades |-> Append(led.trades,
                       [entry_timestamp |-> current_timestamp, exit_timestamp |-> None,
                        entry_price |-> Frac(current_price, 1), exit_price |-> NoValue,
                        quantity |-> trade_quantity, pnl |-> NoValue, side |-> "BUY",
                        avg_entry_price |-> new_avg])]
             ELSE led
    ELSE IF signal = "SELL" /\ led.position_quantity > 0 /\ trade_quantity > 0
    THEN LET sell_quantity == Min(led.position_quantity, trade_quantity)
             proceeds == sell_quantity * current_price
             pnl == realized_pnl(current_price, led.average_entry_price, sell_quantity)
             left == led.position_quantity - sell_quantity
         IN  [balance |-> led.balance + proceeds,
              position_quantity |-> IF left < Epsilon THEN 0 ELSE left,
              average_entry_price |-> IF left < Epsilon THEN <<0, 1>>
                                      ELSE led.average_entry_price,
              trades |-> Append(led.trades,
                  [entry_timestamp |-> current_timestamp, exit_timestamp |-> current_timestamp,
                   entry_price |-> Frac(current_price, 1), exit_price |-> Frac(current_price, 1),
                   quantity |-> sell_quantity, pnl |-> pnl, side |-> "SELL",
                   avg_entry_price |-> led.average_entry_price])]
    ELSE led

(* ------------------------------ Init ----------------------------------- *)
\* an exception that leaves the simulator: the caller receives no result
Raised(exception) == [returned |-> exception, trades |-> <<>>, equity_curve |-> <<>>]

EmptyBotState == [last_indicators |-> <<>>, position_open |-> FALSE,
                  next_purchase_time |-> None, last_purchase_time |-> None]

\* lines 76-88, resp. engine.py lines 35-60: the state before the first step
StartState ==
    /\ pc = IF engine = "BacktestEngine" /\ historical_data = <<>> THEN "raised" ELSE "ready"
    /\ run_no = 0
    /\ NoBots
    /\ i = 0
    /\ current_step = 0
    /\ current_time = None
    /\ quote_balance = IF engine = "BacktestEngine" THEN initial_capital * Scale ELSE 0
    /\ base_balance = 0
    /\ portfolio_value = IF engine = "BacktestEngine" THEN initial_capital * Scale ELSE 0
    /\ open_orders = <<>>
    /\ trades = <<>>
    /\ equity_curve = <<>>
    /\ simulated_bot_state = EmptyBotState
    /\ grid_levels = <<>>
    /\ balance = 0
    /\ position_quantity = 0
    /\ average_entry_price = <<0, 1>>
    /\ last_price = 0
    /\ grid_states = <<>>
    /\ last_buy_timestamp = None
    /\ placed = EmptyBag
    /\ results = IF engine = "BacktestEngine" /\ historical_data = <<>>
                 THEN << Raised("ValueError") >> ELSE <<>>

\* BacktestEngine.__init__ (lines 55-88), resp. the arguments of run_backtest
Init ==
    /\ engine \in {"BacktestEngine", "run_backtest"}
    /\ bot_type \in BotTypes(engine)
    /\ bot_settings \in Settings(bot_type)
    /\ initial_capital \in Capitals(bot_type)
    /\ grid_utils \in IF bot_type = "GridBot" THEN {"module", "None"} ELSE {"None"}
    /\ historical_data \in
          IF engine = "BacktestEngine"
          THEN { <<c>> : c \in Candles(bot_type, 0) }
          ELSE { <<c>> : c \in Klines(bot_type, 0) } \cup { <<>> }
    /\ StartState


(* ----------------------- BacktestEngine actions ------------------------ *)
grid_order(side, level, qty) ==
    [id |-> <<IF side = "BUY" THEN "sim_grid_buy" ELSE "sim_grid_sell", level>>,
     type |-> "LIMIT", side |-> side, price |-> level, qty |-> qty, quoteOrderQty |-> None]

\* the initial grid of run(), lines 357-385: <<levels, orders>>; no orders when
\* the setup fails
grid_setup ==
    LET lower_price == get(bot_settings, "lower_price", None)
        upper_price == get(bot_settings, "upper_price", None)
        num_grids == get(bot_settings, "num_grids", None)
        total_investment == get(bot_settings, "total_investment", None)
        initial_price == historical_data[1].Close
        grid_type == get(bot_settings, "grid_type", "arithmetic")
        levels == IF grid_type = "geometric"
                  THEN calculate_geometric_grid_levels(lower_price, upper_price, num_grids)
                  ELSE calculate_arithmetic_grid_levels(lower_price, upper_price, num_grids)
        lvl_set == { levels[k] : k \in 1..Len(levels) }
        temp_buy_levels == { l \in lvl_set : l < initial_price }
        num_buy_grids == IF Cardinality(temp_buy_levels) > 0
                         THEN Cardinality(temp_buy_levels) ELSE 1
        quote_per_buy_grid == total_investment \div num_buy_grids
        lowest_buy_price == IF temp_buy_levels # {}
                            THEN CHOOSE l \in temp_buy_levels : \A o \in temp_buy_levels : l <= o
                            ELSE lower_price
        qty_per_grid == IF lowest_buy_price > 0
                        THEN quote_per_buy_grid \div lowest_buy_price ELSE 0
        buy_levels == SelectSeq(levels, LAMBDA l : l < initial_price)
        sell_levels == SelectSeq(levels, LAMBDA l : l > initial_price)
    IN  IF None \in {lower_price, upper_price, num_grids, total_investment}
        THEN << grid_levels, <<>> >>
        ELSE IF levels = <<>> \/ qty_per_grid <= 0 THEN << levels, <<>> >>
        ELSE << levels,
                [k \in 1..Len(buy_levels) |-> grid_order("BUY", buy_levels[k], qty_per_grid)]
                \o [k \in 1..Len(sell_levels) |-> grid_order("SELL", sell_levels[k], qty_per_grid)] >>

ReturnedNone == [returned |-> "None", trades |-> <<>>, equity_curve |-> <<>>]

\* run(), lines 318-400: entry of run() up to the bar loop
run ==
    /\ engine = "BacktestEngine"
    /\ pc \in {"ready", "done"}
    /\ run_no < MaxRuns
    /\ run_no' = run_no + 1
    /\ i' = 0
    /\ IF bot_type = "GridBot"
       THEN IF grid_utils = "None" \/ grid_setup[2] = <<>>
            THEN /\ pc' = "done"
                 /\ results' = Append(results, ReturnedNone)
                 /\ grid_levels' = IF grid_utils = "None" THEN grid_levels ELSE grid_setup[1]
                 /\ UNCHANGED <<open_orders, placed>>
            ELSE /\ pc' = "loop"
                 /\ grid_levels' = grid_setup[1]
                 /\ open_orders' = open_orders \o grid_setup[2]
                 /\ placed' = placed (+) SeqToBag(grid_setup[2])
                 /\ UNCHANGED results
       ELSE /\ pc' = "loop"
            /\ UNCHANGED <<grid_levels, open_orders, placed, results>>
    /\ UNCHANGED <<cfgVars, botVars, historical_data, rbVars, current_step, current_time,
                   quote_balance, base_balance, portfolio_value, trades,
                   equity_curve, simulated_bot_state>>

\* lines 404-470 with the decision pass before the fill pass, the orders of
\* the bar taking part in it
run_bar_decision_first(current_candle) ==
    LET acts == process_bot_actions(current_candle, i, simulated_bot_state)
        new_bot_orders == acts[1]
        filled == FillPass(open_orders \o new_bot_orders, current_candle, grid_levels, i,
                           [quote_balance |-> quote_balance, base_balance |-> base_balance,
                            trades |-> trades, open_orders |-> <<>>,
                            placed |-> placed (+) SeqToBag(new_bot_orders)])
        value == mark_to_market(filled.quote_balance, filled.base_balance, current_candle)
    IN  /\ current_step' = i
        /\ current_time' = current_candle.timestamp
        /\ quote_balance' = filled.quote_balance
        /\ base_balance' = filled.base_balance
        /\ trades' = filled.trades
        /\ simulated_bot_state' = acts[2]
        /\ open_orders' = filled.open_orders
        /\ placed' = filled.placed
        /\ portfolio_value' = value
        /\ equity_curve' = Append(equity_curve, <<current_candle.timestamp, value>>)
        /\ i' = i + 1

\* run(), lines 404-470: one iteration of the bar loop on candle
run_bar(current_candle) ==
    LET filled == FillPass(open_orders, current_candle, grid_levels, i,
                           [quote_balance |-> quote_balance, base_balance |-> base_balance,
                            trades |-> trades, open_orders |-> <<>>, placed |-> placed])
        acts == process_bot_actions(current_candle, i, simulated_bot_state)
        new_bot_orders == acts[1]
        value == mark_to_market(filled.quote_balance, filled.base_balance, current_candle)
    IN  /\ current_step' = i
        /\ current_time' = current_candle.timestamp
        /\ quote_balance' = filled.quote_balance
        /\ base_balance' = filled.base_balance
        /\ trades' = filled.trades
        /\ simulated_bot_state' = acts[2]
        /\ open_orders' = filled.open_orders \o new_bot_orders
        /\ placed' = filled.placed (+) SeqToBag(new_bot_orders)
        /\ portfolio_value' = value
        /\ equity_curve' = Append(equity_curve, <<current_candle.timestamp, value>>)
        /\ i' = i + 1

LastTimestamp == IF historical_data = <<>> THEN 0
                 ELSE historical_data[Len(historical_data)].timestamp

BE_Bar ==
    /\ engine = "BacktestEngine"
    /\ pc = "loop"
    /\ IF i < Len(historical_data)
       THEN /\ run_bar(historical_data[i + 1])
            /\ UNCHANGED historical_data
       ELSE /\ run_no = 1
            /\ Len(historical_data) < MaxBars
            /\ \E c \in Candles(bot_type, LastTimestamp) :
                  /\ run_bar(c)
                  /\ historical_data' = Append(historical_data, c)
    /\ UNCHANGED <<cfgVars, botVars, rbVars, pc, run_no, grid_levels, results>>

\* run(), lines 473-485, and _calculate_results: the trade list and the equity
\* curve are returned
BE_Finish ==
    /\ engine = "BacktestEngine"
    /\ pc = "loop"
    /\ i = Len(historical_data)
    /\ pc' = "done"
    /\ results' = Append(results, [returned |-> "results", trades |-> trades,
                                   equity_curve |-> equity_curve])
    /\ UNCHANGED <<cfgVars, botVars, historical_data, rbVars, run_no, i, current_step, current_time,
                   quote_balance, base_balance, portfolio_value, open_orders, trades,
                   equity_curve, simulated_bot_state, grid_levels, placed>>

(* ------------------------- run_backtest actions ------------------------ *)
beIdle == <<run_no, current_step, current_time, quote_balance, base_balance,
            portfolio_value, open_orders, simulated_bot_state, placed>>

\* schemas/backtest.py, lines 45-87: the fields a BacktestResult requires
BacktestResultRequired ==
    {"start_date", "end_date", "interval", "initial_capital", "id", "run_timestamp",
     "bot_config_id"}

\* BacktestResult(**fields): pydantic rejects a construction that lacks a
\* required field
BacktestResult(fields) ==
    IF BacktestResultRequired \subseteq DOMAIN fields
    THEN [returned |-> "results", trades |-> fields.trades,
          equity_curve |-> fields.equity_curve]
    ELSE Raised("ValidationError")

\* metrics.calculate_metrics on the Trade objects of run_backtest: the
\* sentinel for an empty curve, AttributeError where trade.get is called
calculate_metrics(tr, curve) ==
    IF curve = <<>> THEN "sentinel"
    ELSE IF tr # <<>> THEN "AttributeError"
    ELSE "metrics"

\* lines 52 and 300-304: what run_backtest hands to its caller
run_backtest_returns(tr, curve) ==
    LET metrics == calculate_metrics(tr, curve)
    IN  IF metrics = "AttributeError" THEN Raised("AttributeError")
        ELSE BacktestResult([metrics |-> metrics, trades |-> tr, equity_curve |-> curve])

\* the parameters that lines 63-65 and 78 read with bot_params[...]
start_keys ==
    CASE bot_type = "Grid" -> {"lower_bound", "upper_bound", "num_grids"}
      [] bot_type = "DCA" -> {"buy_interval_seconds"}
      [] OTHER -> {}

\* the parameters that lines 186-187 read with bot_params[...] on each bar
bar_keys == IF bot_type = "DCA" THEN {"buy_interval_seconds", "order_amount_quote"} ELSE {}

\* lines 35-79: initial state of the simulation and of the archetype
RB_Start ==
    /\ engine = "run_backtest"
    /\ pc = "ready"
    /\ balance' = initial_capital
    /\ position_quantity' = 0
    /\ average_entry_price' = <<0, 1>>
    /\ trades' = <<>>
    /\ i' = 0
    /\ IF historical_data = <<>>
       THEN /\ pc' = "done"
            /\ equity_curve' = <<>>
            /\ results' = Append(results, run_backtest_returns(<<>>, <<>>))
            /\ UNCHANGED <<last_price, grid_levels, grid_states, last_buy_timestamp>>
       ELSE IF ~(start_keys \subseteq DOMAIN bot_settings)
       THEN /\ pc' = "raised"
            /\ equity_curve' = << [timestamp |-> historical_data[1].timestamp,
                                   equity |-> initial_capital] >>
            /\ last_price' = historical_data[1].Close
            /\ results' = Append(results, Raised("KeyError"))
            /\ UNCHANGED <<grid_levels, grid_states, last_buy_timestamp>>
       ELSE /\ pc' = "loop"
            /\ equity_curve' = << [timestamp |-> historical_data[1].timestamp,
                                   equity |-> initial_capital] >>
            /\ last_price' = historical_data[1].Close
            /\ IF bot_type = "Grid" /\ bot_settings.num_grids > 1
               THEN LET levels == linspace(bot_settings.lower_bound, bot_settings.upper_bound,
                                           bot_settings.num_grids)
                    IN  /\ grid_levels' = levels
                        /\ grid_states' = [l \in { levels[k] : k \in 1..Len(levels) } |-> "empty"]
               ELSE /\ grid_levels' = <<>>
                    /\ grid_states' = <<>>
            /\ last_buy_timestamp' =
                  IF bot_type = "DCA"
                  THEN historical_data[1].timestamp - bot_settings.buy_interval_seconds
                  ELSE None
            /\ UNCHANGED results
    /\ UNCHANGED <<cfgVars, botVars, historical_data, beIdle>>

\* lines 83-261: one iteration of the loop over the k-lines
backtest_bar(kline) ==
    LET index == i
        current_price == kline.Close
        current_timestamp == kline.timestamp
        warm_up == /\ bot_type = "Momentum"
                   /\ index < get(bot_settings, "ema_long_period", DEFAULT_EMA_LONG_PERIOD)
        decision ==
            CASE bot_type = "Momentum" -> momentum_policy(kline, position_quantity)
              [] bot_type = "Grid" ->
                   IF get(bot_settings, "order_quantity", 0) > 0 /\ grid_levels # <<>>
                   THEN grid_policy(sorted(grid_levels), 1, grid_states, current_price,
                                    balance, position_quantity)
                   ELSE no_signal(grid_states)
              [] bot_type = "DCA" -> dca_policy(kline, balance)
              [] OTHER -> no_signal(grid_states)
        led == execute_signal(decision.signal, decision.trade_quantity, current_price,
                              current_timestamp,
                              [balance |-> balance, position_quantity |-> position_quantity,
                               average_entry_price |-> average_entry_price, trades |-> trades])
    IN  /\ i' = i + 1
        /\ IF warm_up
           THEN /\ equity_curve' = Append(equity_curve,
                       [timestamp |-> current_timestamp,
                        equity |-> balance + position_quantity * current_price])
                /\ UNCHANGED <<balance, position_quantity, average_entry_price, trades,
                               last_price, grid_states, last_buy_timestamp>>
           ELSE /\ balance' = led.balance
                /\ position_quantity' = led.position_quantity
                /\ average_entry_price' = led.average_entry_price
                /\ trades' = led.trades
                /\ grid_states' = decision.grid_states
                /\ last_price' = IF bot_type = "Grid" THEN current_price ELSE last_price
                /\ last_buy_timestamp' = IF bot_type = "DCA" THEN decision.last_buy_timestamp
                                         ELSE last_buy_timestamp
                /\ equity_curve' = Append(equity_curve,
                       [timestamp |-> current_timestamp,
                        equity |-> led.balance + led.position_quantity * current_price])

RB_Bar ==
    /\ engine = "run_backtest"
    /\ pc = "loop"
    /\ IF i < Len(historical_data) /\ ~(bar_keys \subseteq DOMAIN bot_settings)
       THEN /\ pc' = "raised"
            /\ results' = Append(results, Raised("KeyError"))
            /\ UNCHANGED <<historical_data, rbVars, i, trades, equity_curve>>
       ELSE /\ IF i < Len(historical_data)
               THEN /\ backtest_bar(historical_data[i + 1])
                    /\ UNCHANGED historical_data
               ELSE /\ Len(historical_data) < MaxBars
                    /\ \E k \in Klines(bot_type, LastTimestamp) :
                          /\ backtest_bar(k)
                          /\ historical_data' = Append(historical_data, k)
            /\ UNCHANGED <<pc, results>>
    /\ UNCHANGED <<cfgVars, botVars, beIdle, grid_levels>>

\* lines 269-304: mark-to-market of the remaining position, result
RB_Finish ==
    /\ engine = "run_backtest"
    /\ pc = "loop"
    /\ i = Len(historical_data)
    /\ pc' = "done"
    /\ LET last == historical_data[Len(historical_data)]
           final_equity == balance + position_quantity * last.Close
           close == [entry_timestamp |-> last.timestamp, exit_timestamp |-> last.timestamp,
                     entry_price |-> average_entry_price, exit_price |-> Frac(last.Close, 1),
                     quantity |-> position_quantity,
                     pnl |-> realized_pnl(last.Close, average_entry_price, position_quantity),
                     side |-> "CLOSE", avg_entry_price |-> average_entry_price]
       IN  IF position_quantity > Epsilon
           THEN /\ trades' = Append(trades, close)
                /\ balance' = final_equity
                /\ position_quantity' = 0
                /\ last_price' = last.Close
                /\ results' = Append(results,
                                      run_backtest_returns(Append(trades, close), equity_curve))
           ELSE /\ results' = Append(results, run_backtest_returns(trades, equity_curve))
                /\ UNCHANGED <<trades, balance, position_quantity, last_price>>
    /\ UNCHANGED <<cfgVars, botVars, historical_data, beIdle, i, equity_curve, grid_levels,
                   average_entry_price, grid_states, last_buy_timestamp>>

(* ------------------------------ Spec ----------------------------------- *)
Next == run \/ BE_Bar \/ BE_Finish \/ RB_Start \/ RB_Bar \/ RB_Finish

Spec == Init /\ [][Next]_vars

(* ====================== properties of the ledger ======================= *)
SeqSet(s) == { s[k] : k \in 1..Len(s) }

NewTrades == SubSeq(trades', Len(trades) + 1, Len(trades'))

TradesExtended == /\ Len(trades') >= Len(trades)
                  /\ SubSeq(trades', 1, Len(trades)) = trades

\* what a BacktestEngine trade record moves in quote and in base currency
NetQuote(t) == IF t.side = "BUY" THEN 0 - (t.cost + t.commission) ELSE t.cost - t.commission
NetBase(t) == IF t.side = "BUY" THEN t.quantity ELSE 0 - t.quantity

RECURSIVE SumNetQuote(_)
SumNetQuote(ts) == IF ts = <<>> THEN 0 ELSE NetQuote(Head(ts)) + SumNetQuote(Tail(ts))

RECURSIVE SumNetBase(_)
SumNetBase(ts) == IF ts = <<>> THEN 0 ELSE NetBase(Head(ts)) + SumNetBase(Tail(ts))

\* C1: in every simulation run, of BacktestEngine.run and of run_backtest, the
\* cash balance and the position quantity are never negative.
C1_NonNegativeLedger ==
    /\ quote_balance >= 0 /\ base_balance >= 0
    /\ balance >= 0 /\ position_quantity >= 0

\* the open order o was already open before the bar just processed
WasOpen(o) ==
    \/ o.type = "MARKET" /\ o.id[2] < current_step
    \/ o.type = "LIMIT" /\ (Len(o.id) = 2 \/ o.id[3] < current_step)

\* the candle c lets the order o fill: any candle for a MARKET order, a
\* candle that reaches the limit price for a LIMIT order
Crossed(o, c) ==
    \/ o.type = "MARKET"
    \/ o.type = "LIMIT" /\ o.side = "BUY" /\ c.Low <= o.price
    \/ o.type = "LIMIT" /\ o.side = "SELL" /\ c.High >= o.price

\* the fill pass of the bar just processed refused the order o: the candle let
\* it fill, and it is still open
Refused(o) ==
    /\ engine = "BacktestEngine" /\ pc = "loop" /\ i >= 1
    /\ o \in SeqSet(open_orders) /\ WasOpen(o) /\ Crossed(o, historical_data[i])

\* an engine that has filled an order and, in the bar just processed, refused
\* a BUY it could not pay for
C1_Witness ==
    /\ run_no = 1 /\ trades # <<>>
    /\ \E o \in SeqSet(open_orders) : Refused(o) /\ o.side = "BUY"

\* the trade t is the fill of the whole of one of the orders that were open
WholeFill(t) ==
    \E o \in SeqSet(open_orders) :
       /\ o.id = t.order_id /\ o.side = t.side /\ o.type = t.type
       /\ IF o.quoteOrderQty # None THEN t.cost = o.quoteOrderQty * Scale
          ELSE t.quantity = o.qty

\* the quantity the policy of run_backtest asks for on the bar at price p
RequestedQuantity(side, p) ==
    CASE bot_type = "Grid" -> bot_settings.order_quantity
      [] bot_type = "DCA" -> bot_settings.order_amount_quote \div p
      [] bot_type = "Momentum" -> IF side = "BUY" THEN bot_settings.order_quantity
                                  ELSE position_quantity

C2_EngineStep ==
    /\ TradesExtended
    /\ quote_balance' = quote_balance + SumNetQuote(NewTrades)
    /\ base_balance' = base_balance + SumNetBase(NewTrades)
    /\ \A t \in SeqSet(NewTrades) :
          t.quote_balance >= 0 /\ t.base_balance >= 0 /\ WholeFill(t)

C2_BacktestStep ==
    /\ TradesExtended
    /\ Len(trades') <= Len(trades) + 1
    /\ Len(trades') = Len(trades) =>
          balance' = balance /\ position_quantity' = position_quantity
    /\ \A t \in SeqSet(NewTrades) :
          LET p == t.entry_price[1] IN
          /\ t.quantity = RequestedQuantity(t.side, p)
          /\ t.side = "BUY" =>
                /\ balance' = balance - t.quantity * p /\ balance' >= 0
                /\ position_quantity' = position_quantity + t.quantity
          /\ t.side = "SELL" =>
                /\ balance' = balance + t.quantity * p
                /\ t.quantity <= position_quantity
                /\ position_quantity' =
                      IF position_quantity - t.quantity < Epsilon THEN 0
                      ELSE position_quantity - t.quantity

\* C2: fills are whole-or-none.  In every bar the ledger moves by exactly the
\* trades recorded in that bar, each of them the fill of a whole order that
\* leaves cash and position non-negative; an attempt that would overdraw
\* records nothing and leaves cash, position and the trade log as they were.
C2_WholeOrNone ==
    [][ /\ BE_Bar => C2_EngineStep
        /\ RB_Bar => C2_BacktestStep ]_vars

\* a MARKET order that was evaluated in the last fill pass and refused
C2_Witness ==
    /\ run_no = 1
    /\ \E o \in SeqSet(open_orders) : Refused(o) /\ o.type = "MARKET"

\* what a run_backtest trade record moves in cash: a BUY costs quantity * price,
\* a SELL and the terminal CLOSE bring quantity * price
CashFlow(t) == IF t.side = "BUY" THEN 0 - t.quantity * t.entry_price[1]
               ELSE t.quantity * t.exit_price[1]

RECURSIVE SumCashFlow(_)
SumCashFlow(ts) == IF ts = <<>> THEN 0 ELSE CashFlow(Head(ts)) + SumCashFlow(Tail(ts))

\* BUY costs minus SELL proceeds of run_backtest, the CLOSE record left out
RECURSIVE BuysMinusSells(_)
BuysMinusSells(ts) ==
    IF ts = <<>> THEN 0
    ELSE (IF Head(ts).side = "CLOSE" THEN 0 ELSE 0 - CashFlow(Head(ts)))
         + BuysMinusSells(Tail(ts))

C4_Determinism ==
    \A a, b \in 1..Len(results) :
       /\ results[a].trades = results[b].trades
       /\ results[a].equity_curve = results[b].equity_curve

\* C5: a MARKET order is filled in the bar whose decision pass emitted it: its
\* trade record carries the timestamp of that bar (the order id carries the
\* step of the decision).
C5_MarketFilledInDecisionBar ==
    engine = "BacktestEngine" =>
       \A t \in SeqSet(trades) :
          t.type = "MARKET" => t.timestamp = historical_data[t.order_id[2] + 1].timestamp

\* number of positions of the sequence s that hold an element satisfying P
Count(s, P(_)) == Cardinality({ k \in 1..Len(s) : P(s[k]) })

\* the placed order o is accounted for: its copies are open or have a trade
Accounted(o) ==
    LET same(x) == x = o
        fill(t) == t.order_id = o.id
    IN  CopiesIn(o, placed) = Count(open_orders, same) + Count(trades, fill)

C6_Conservation ==
    engine = "BacktestEngine" =>
    /\ \A o \in BagToSet(placed) :
          /\ Accounted(o)
          /\ run_no = 1 => CopiesIn(o, placed) = 1
          /\ \A o2 \in BagToSet(placed) : o2.id = o.id => o2 = o
    /\ \A o \in SeqSet(open_orders) : o \in BagToSet(placed)
    /\ \A t \in SeqSet(trades) : \E o \in BagToSet(placed) : o.id = t.order_id

\* the bar being processed by the step
ThisBar == historical_data'[i + 1]

C6_Carried ==
    \A o \in SeqSet(open_orders) :
       LET same(x) == x = o IN
       (o.type = "LIMIT" /\ ~Crossed(o, ThisBar)) =>
           Count(open_orders', same) >= Count(open_orders, same)

\* C6: order lifecycle in BacktestEngine.run.  At every bar boundary each placed
\* order is either open, once, or has one trade record; an unfilled LIMIT
\* order whose price the bar does not reach is still open after the bar; no
\* order is lost or duplicated by the rebuild of the open-orders list.
C6_OrderLifecycle ==
    [][ /\ C6_Conservation'
        /\ BE_Bar => C6_Carried ]_vars

\* a first run in which a LIMIT order has filled and another LIMIT order, not
\* reached by the last bar, is still open
C6_Witness ==
    /\ engine = "BacktestEngine" /\ pc = "loop" /\ run_no = 1 /\ i >= 2
    /\ \E t \in SeqSet(trades) : t.type = "LIMIT"
    /\ \E o \in SeqSet(open_orders) :
          o.type = "LIMIT" /\ WasOpen(o) /\ ~Crossed(o, historical_data[i])

\* the fill pass of the step attempts the open order o and records no fill
RejectedInStep(o) ==
    /\ Crossed(o, ThisBar)
    /\ ~\E t \in SeqSet(NewTrades) : t.order_id = o.id

\* C7: when a fill is rejected, a LIMIT order remains open, and a MARKET order
\* is skipped: it does not stay in the open orders.
C7_RejectedMarketSkipped ==
    [][ BE_Bar =>
          \A o \in SeqSet(open_orders) :
             RejectedInStep(o) =>
                /\ o.type = "LIMIT" => o \in SeqSet(open_orders')
                /\ o.type = "MARKET" => o \notin SeqSet(open_orders') ]_vars

(* ================= properties of the average entry price ================ *)
\* C8: in run_backtest, after every BUY
\*   new_avg * (old_position + qty) = old_avg * old_position + qty * fill_price,
\* a SELL that leaves a position open does not change the average entry
\* price, and a position of zero at the end of a bar has average zero.
C8_Step ==
    /\ \A t \in SeqSet(NewTrades) :
          /\ t.side = "BUY" =>
                LET new == average_entry_price'
                    old == average_entry_price
                IN  new[1] * (position_quantity + t.quantity) * old[2]
                       = (old[1] * position_quantity
                          + t.quantity * t.entry_price[1] * old[2]) * new[2]
          /\ (t.side = "SELL" /\ position_quantity' > 0) =>
                average_entry_price' = average_entry_price
    /\ position_quantity' = 0 => average_entry_price' = <<0, 1>>

C8_WeightedAverage == [][ RB_Bar => C8_Step ]_vars

(* ============== properties of the trade log and the equity ============== *)
C9_Step ==
    /\ TradesExtended
    /\ Len(trades') <= Len(trades) + 1
    /\ Len(trades') = Len(trades) <=>
          (balance' = balance /\ position_quantity' = position_quantity)
    /\ \A t \in SeqSet(NewTrades) :
          LET avg == average_entry_price IN
          /\ t.side \in {"BUY", "SELL", "CLOSE"}
          /\ t.side = "BUY" => t.pnl = NoValue
          /\ t.side \in {"SELL", "CLOSE"} =>
                /\ t.pnl # NoValue
                /\ t.avg_entry_price = avg
                /\ t.pnl[1] * avg[2]
                      = (t.exit_price[1] * avg[2] - avg[1]) * t.quantity * t.pnl[2]

\* C9: the trade log is append-only with one record per fill; realized PnL is
\* present exactly on SELL and CLOSE records, where it is (fill price - average
\* entry price held just before the fill) * filled quantity; BUY records
\* carry no PnL value.
C9_TradeLog ==
    [][ /\ TradesExtended
        /\ (RB_Bar \/ RB_Finish) => C9_Step ]_vars

\* a run that has sold at a price away from its average entry price
C9_Witness ==
    /\ engine = "run_backtest"
    /\ \E t \in SeqSet(trades) : t.side = "SELL" /\ t.pnl[1] # 0 /\ t.quantity > 1
    /\ \E t \in SeqSet(trades) : t.side = "BUY"

\* timestamp of a point of the equity curve of either engine
PointTime(pt) == IF engine = "BacktestEngine" THEN pt[1] ELSE pt.timestamp

\* C10 as stated: one point per processed bar, no two points with the same
\* timestamp, in ascending order (first run of an engine).
C10_AsStated ==
    (pc \in {"loop", "done"} /\ run_no <= 1) =>
        /\ Len(equity_curve) = i
        /\ \A k, l \in 1..Len(equity_curve) :
              k < l => PointTime(equity_curve[k]) < PointTime(equity_curve[l])

C10_Step ==
    /\ BE_Bar => equity_curve' = Append(equity_curve,
                     <<ThisBar.timestamp,
                       quote_balance' + base_balance' * ThisBar.Close * Scale>>)
    /\ RB_Bar => equity_curve' = Append(equity_curve,
                     [timestamp |-> ThisBar.timestamp,
                      equity |-> balance' + position_quantity' * ThisBar.Close])
    /\ RB_Start => equity_curve' =
                     IF historical_data = <<>> THEN <<>>
                     ELSE << [timestamp |-> historical_data[1].timestamp,
                              equity |-> initial_capital] >>
    /\ ~(BE_Bar \/ RB_Bar \/ RB_Start) => equity_curve' = equity_curve

C10_Shape ==
    /\ \A k, l \in 1..Len(historical_data) :
          k < l => historical_data[k].timestamp < historical_data[l].timestamp
    /\ (engine = "run_backtest" /\ pc \in {"loop", "done"} /\ historical_data # <<>>) =>
          /\ Len(equity_curve) = i + 1
          /\ equity_curve[1].timestamp = historical_data[1].timestamp
          /\ \A k \in 1..i : equity_curve[k + 1].timestamp = historical_data[k].timestamp
    /\ (engine = "BacktestEngine" /\ pc \in {"loop", "done"}) =>
          /\ Len(equity_curve) >= i
          /\ run_no = 1 => Len(equity_curve) = i
          /\ \A k \in 1..i :
                equity_curve[Len(equity_curve) - i + k][1] = historical_data[k].timestamp

\* C10 (amended): every processed bar appends exactly one point, with the
\* timestamp of the bar and the value cash + position * close of the bar as
\* they stand after the fills and the decision of the bar.  run_backtest puts
\* one more point, (timestamp of the first bar, initial capital), before the
\* point of the first bar, so its curve has one point more than bars and its
\* first two points share a timestamp; the points of the bars of one run are
\* in strictly ascending timestamp order.
C10_EquityCurve ==
    [][ C10_Step /\ C10_Shape' ]_vars

\* run_backtest after two bars with a position held
C10_Witness ==
    /\ engine = "run_backtest" /\ pc = "loop" /\ i >= 2 /\ position_quantity > 0
    /\ equity_curve[1].timestamp = equity_curve[2].timestamp
    /\ equity_curve[2].timestamp < equity_curve[3].timestamp

(* ===================== the grid scenario (run_backtest) ================= *)
\* a k-line of run_backtest with the close price only, no indicator values
kline_at(ts, close) ==
    [timestamp |-> ts, Open |-> close, High |-> close, Low |-> close, Close |-> close,
     RSI |-> NaN, MACD |-> NaN, Signal |-> NaN, EMA_short |-> NaN, EMA_long |-> NaN]

\* the price paths of five bars over the closes 92, 100 and 108
GridPaths == { [k \in 1..5 |-> kline_at(k, p[k])] : p \in [1..5 -> {92, 100, 108}] }

\* run_backtest on a Grid configuration with levels 90, 95, 100, 105, 110
\* (np.linspace(90, 110, 5)) and capital for every purchase
InitGrid ==
    /\ engine = "run_backtest"
    /\ bot_type = "Grid"
    /\ bot_settings = [lower_bound |-> 90, upper_bound |-> 110, num_grids |-> 5,
                       order_quantity |-> 10]
    /\ initial_capital = 5000
    /\ grid_utils = "None"
    /\ historical_data \in GridPaths
    /\ StartState

NextGrid == RB_Start \/ RB_Bar \/ RB_Finish

SpecGrid == InitGrid /\ [][NextGrid]_vars

Closes == [k \in 1..Len(historical_data) |-> historical_data[k].Close]

\* C11: on the path 100, 92, 100, 108, 100 the run buys for level 95 on the bar
\* that crosses down through 95 (bar 2), sells on the bar that crosses up
\* through 105 (bar 4) and not earlier, and level 95 is empty after that sell.
C11_GridScenario ==
    (Closes = <<100, 92, 100, 108, 100>> /\ pc = "done") =>
        /\ \E t \in SeqSet(trades) : t.side = "BUY" /\ t.entry_timestamp = 2
        /\ \E t \in SeqSet(trades) : t.side = "SELL" /\ t.entry_timestamp = 4
        /\ \A t \in SeqSet(trades) : t.side = "SELL" => t.entry_timestamp >= 4
        /\ grid_states[95] = "empty"


(* ------------------- scenario: DCA on a flat market -------------------- *)
\* 72 hourly bars at the price 50, bar k at hour k; 100 of quote is bought
\* every 24 hours (and every 12 hours, for comparison)
FlatBars == [k \in 1..72 |-> kline_at(k - 1, 50)]

InitDCA ==
    /\ engine = "BacktestEngine"
    /\ bot_type = "DCABot"
    /\ bot_settings \in { [purchase_amount |-> 100, purchase_frequency_hours |-> f] :
                          f \in {12, 24} }
    /\ initial_capital = 1000
    /\ grid_utils = "None"
    /\ historical_data = FlatBars
    /\ StartState

NextDCA == run \/ BE_Bar \/ BE_Finish

SpecDCA == InitDCA /\ [][NextDCA]_vars

\* C12: purchase amount 100 every 24 hours over 72 hourly bars at 50: the
\* first run returns exactly three buys, at bars 0, 24 and 48, of 2 units
\* each; the position ends at 6 units and 300 of quote was invested
C12_DCAScenario ==
    (bot_settings.purchase_frequency_hours = 24 /\ results # <<>>) =>
        LET tr == results[1].trades
        IN  /\ Len(tr) = 3
            /\ \A k \in 1..3 : /\ tr[k].side = "BUY"
                               /\ tr[k].quantity = 2
                               /\ tr[k].timestamp = 24 * (k - 1)
            /\ tr[3].base_balance = 6
            /\ tr[1].cost + tr[2].cost + tr[3].cost = 300 * Scale

\* what the engine does on this scenario: the three buys are recorded one
\* bar after the bars that are due
C12_Observed ==
    (bot_settings.purchase_frequency_hours = 24 /\ results # <<>>) =>
        LET tr == results[1].trades
        IN  /\ Len(tr) = 3
            /\ \A k \in 1..3 : /\ tr[k].quantity = 2
                               /\ tr[k].timestamp = 24 * (k - 1) + 1
            /\ tr[3].base_balance = 6
            /\ tr[1].cost + tr[2].cost + tr[3].cost = 300 * Scale


(* ------------- scenario: faulty configurations and inputs -------------- *)
\* per archetype: a complete configuration, then configurations that lack
\* a key, then configurations with values out of range
FaultySettings(bt) ==
    CASE bt = "MomentumBot" ->
           { [order_quantity |-> 1], [macd_fast |-> 12, macd_slow |-> 26],
             [order_quantity |-> 1, macd_fast |-> 26, macd_slow |-> 12],
             [order_quantity |-> 1, macd_fast |-> 12, macd_slow |-> 12] }
      [] bt = "GridBot" ->
           { [lower_price |-> 1, upper_price |-> 3, num_grids |-> 2, total_investment |-> 4],
             [lower_price |-> 1, upper_price |-> 3, num_grids |-> 2],
             [upper_price |-> 3, num_grids |-> 2, total_investment |-> 4],
             [lower_price |-> 0, upper_price |-> 3, num_grids |-> 2, total_investment |-> 4],
             [lower_price |-> 3, upper_price |-> 3, num_grids |-> 2, total_investment |-> 4],
             [lower_price |-> 1, upper_price |-> 3, num_grids |-> 0, total_investment |-> 4] }
      [] bt = "DCABot" ->
           { [purchase_amount |-> 2, purchase_frequency_hours |-> 2],
             [purchase_frequency_hours |-> 2], [purchase_amount |-> 2] }
      [] bt = "Momentum" ->
           { [order_quantity |-> 1, ema_long_period |-> 1], [ema_long_period |-> 1] }
      [] bt = "Grid" ->
           { [lower_bound |-> 1, upper_bound |-> 3, num_grids |-> 3, order_quantity |-> 1],
             [lower_bound |-> 1, num_grids |-> 3, order_quantity |-> 1],
             [lower_bound |-> 3, upper_bound |-> 1, num_grids |-> 3, order_quantity |-> 1],
             [lower_bound |-> 0, upper_bound |-> 3, num_grids |-> 4, order_quantity |-> 1],
             [lower_bound |-> 1, upper_bound |-> 3, num_grids |-> 0, order_quantity |-> 1] }
      [] bt = "DCA" ->
           { [buy_interval_seconds |-> 2, order_amount_quote |-> 2],
             [order_amount_quote |-> 2], [buy_interval_seconds |-> 2] }

\* indicator readings of a bar, one of them the library raising
FaultyReadings(bt) ==
    CASE bt = "MomentumBot" ->
           {<<50, 1, 2, NaN, NaN>>, <<50, 2, 1, NaN, NaN>>, <<50, Raise, Raise, NaN, NaN>>}
      [] bt = "Momentum" ->
           {<<20, 2, 1, 2, 1>>, <<80, 2, 1, 2, 1>>, <<Raise, Raise, Raise, Raise, Raise>>}
      [] OTHER -> {<<NaN, NaN, NaN, NaN, NaN>>}

FaultyCandles(bt, ts) ==
    { [timestamp |-> ts, Open |-> p, High |-> p, Low |-> p, Close |-> p,
       RSI |-> m[1], MACD |-> m[2], Signal |-> m[3], EMA_short |-> m[4],
       EMA_long |-> m[5]] :
        p \in IF bt \in {"GridBot", "Grid"} THEN {1, 2} ELSE {2}, m \in FaultyReadings(bt) }

\* no bar at all, or two bars
FaultyData(bt) ==
    { <<>> } \cup { <<a, b>> : a \in FaultyCandles(bt, 1), b \in FaultyCandles(bt, 2) }

InitFaults ==
    /\ engine \in {"BacktestEngine", "run_backtest"}
    /\ bot_type \in BotTypes(engine)
    /\ bot_settings \in FaultySettings(bot_type)
    /\ initial_capital \in Capitals(bot_type)
    /\ grid_utils \in IF bot_type = "GridBot" THEN {"module", "None"} ELSE {"None"}
    /\ historical_data \in FaultyData(bot_type)
    /\ StartState

NextFaults == run \/ BE_Bar \/ BE_Finish \/ RB_Start \/ RB_Bar \/ RB_Finish

SpecFaults == InitFaults /\ [][NextFaults]_vars

\* the keys that the simulators themselves name as required (backtest.py
\* lines 236-238, 292-294, 351-353) or read without a default (engine.py
\* lines 63-65, 78, 186-187)
required_keys ==
    CASE bot_type = "MomentumBot" -> {"order_quantity"}
      [] bot_type = "GridBot" -> {"lower_price", "upper_price", "num_grids", "total_investment"}
      [] bot_type = "DCABot" -> {"purchase_amount", "purchase_frequency_hours"}
      [] OTHER -> start_keys \cup bar_keys

MissingRequiredKey == ~(required_keys \subseteq DOMAIN bot_settings)

NoBarVisited == i = 0 /\ pc # "loop" /\ trades = <<>>

NoNormalResult == \A k \in DOMAIN results : results[k].returned # "results"

Finished == pc \in {"done", "raised"}

\* C13: a configuration that lacks a key its archetype requires makes the
\* run fail before the first bar: once the run has been started no bar is
\* ever visited, and the caller never receives a normal result
C13_MissingKeyFailsFast ==
    (MissingRequiredKey /\ historical_data # <<>> /\ pc # "ready") =>
        NoBarVisited /\ NoNormalResult


\* C14: an empty bar sequence never raises: the simulator returns a result
\* with zero trades and an equity curve of length 0 or 1
C14_EmptyDataReturns ==
    historical_data = <<>> =>
        /\ pc # "raised"
        /\ Finished => /\ results # <<>>
                       /\ results[Len(results)].returned = "results"
                       /\ results[Len(results)].trades = <<>>
                       /\ Len(results[Len(results)].equity_curve) <= 1

\* the bar that the next step of the loop processes makes the indicator
\* computation of a Momentum archetype raise
ErrorOnBar ==
    /\ pc = "loop"
    /\ i < Len(historical_data)
    /\ LET bar == historical_data[i + 1]
       IN  \/ /\ bot_type = "MomentumBot"
              /\ Raise \in {bar.MACD, bar.Signal}
           \/ /\ bot_type = "Momentum"
              /\ i >= get(bot_settings, "ema_long_period", DEFAULT_EMA_LONG_PERIOD)
              /\ Raise \in {bar.RSI, bar.MACD, bar.Signal, bar.EMA_short, bar.EMA_long}

\* C15: an error raised while a bar is processed aborts the run and reaches
\* the caller: the step on such a bar ends the run with the error, and the
\* loop does not go on to the next bar
C15_ErrorAborts ==
    [][(ErrorOnBar /\ (BE_Bar \/ RB_Bar)) =>
          /\ pc' = "raised"
          /\ i' = i
          /\ Len(results') = Len(results) + 1
          /\ results'[Len(results')].returned \notin {"results", "None"}]_vars

\* values that the grid helpers and the MACD reject (grid.py lines 23-25,
\* indicators.py lines 83-86)
InvalidValues ==
    CASE bot_type = "GridBot" /\ required_keys \subseteq DOMAIN bot_settings ->
           \/ bot_settings.lower_price <= 0
           \/ bot_settings.upper_price <= bot_settings.lower_price
           \/ bot_settings.num_grids < 1
      [] bot_type = "Grid" /\ required_keys \subseteq DOMAIN bot_settings ->
           \/ bot_settings.lower_bound <= 0
           \/ bot_settings.upper_bound <= bot_settings.lower_bound
           \/ bot_settings.num_grids < 1
      [] bot_type = "MomentumBot" ->
           get(bot_settings, "macd_fast", DEFAULT_MACD_FAST)
               >= get(bot_settings, "macd_slow", DEFAULT_MACD_SLOW)
      [] OTHER -> FALSE

\* C16: out-of-range configuration values (grid lower bound <= 0, upper
\* bound <= lower bound, grid count < 1, MACD fast period >= slow period)
\* are detected before or at the start of the run: the bar loop is never
\* entered and no completed result is returned
C16_InvalidValuesRejected ==
    (InvalidValues /\ historical_data # <<>> /\ pc # "ready") =>
        /\ pc # "loop"
        /\ i = 0
        /\ NoNormalResult


(* ------------- backend/backtesting/metrics.py: the metrics ------------- *)
\* round(n / d) to the nearest integer, ties to the even one (d > 0, n >= 0)
round_half_even(n, d) ==
    LET q == n \div d
        r == n % d
    IN  IF 2 * r > d THEN q + 1
        ELSE IF 2 * r < d THEN q
        ELSE IF q % 2 = 0 THEN q ELSE q + 1

FracAdd(a, b) == Frac(a[1] * b[2] + b[1] * a[2], a[2] * b[2])

\* trade.get('pnl', 0) of a dict
pnl_of(trade) == get(trade, "pnl", <<0, 1>>)

\* the exception that a scan of the list with trade.get('pnl', 0) > 0 meets
\* first: a Trade object has no get (AttributeError), None > 0 is a
\* TypeError; "none" when the scan completes
RECURSIVE first_exception(_)
first_exception(tr) ==
    IF tr = <<>> THEN "none"
    ELSE IF Head(tr).class = "Trade" THEN "AttributeError"
    ELSE IF pnl_of(Head(tr)) = NoValue THEN "TypeError"
    ELSE first_exception(Tail(tr))

\* line 33: sum of the positive PnL
RECURSIVE gross_profit(_)
gross_profit(tr) ==
    IF tr = <<>> THEN <<0, 1>>
    ELSE IF pnl_of(Head(tr))[1] > 0 THEN FracAdd(pnl_of(Head(tr)), gross_profit(Tail(tr)))
    ELSE gross_profit(Tail(tr))

\* line 34: absolute value of the sum of the negative PnL
RECURSIVE negative_sum(_)
negative_sum(tr) ==
    IF tr = <<>> THEN <<0, 1>>
    ELSE IF pnl_of(Head(tr))[1] < 0 THEN FracAdd(pnl_of(Head(tr)), negative_sum(Tail(tr)))
    ELSE negative_sum(Tail(tr))

gross_loss(tr) == << Abs(negative_sum(tr)[1]), negative_sum(tr)[2] >>

\* calculate_profit_factor, lines 28-36; a value is in hundredths
calculate_profit_factor(tr) ==
    IF tr = <<>> THEN [returned |-> "value", value |-> 0]
    ELSE IF first_exception(tr) # "none" THEN [returned |-> first_exception(tr), value |-> 0]
    ELSE IF gross_loss(tr)[1] = 0 THEN [returned |-> "inf", value |-> 0]
    ELSE [returned |-> "value",
          value |-> round_half_even(100 * gross_profit(tr)[1] * gross_loss(tr)[2],
                                    gross_profit(tr)[2] * gross_loss(tr)[1])]

\* the row orders that sort_values(by='timestamp') can produce: the default
\* sort kind is not stable, rows with equal timestamps come out in any order
sort_values(curve) ==
    LET n == Len(curve)
        orders == { f \in [1..n -> 1..n] :
                      /\ \A j, k \in 1..n : j # k => f[j] # f[k]
                      /\ \A j, k \in 1..n :
                            j < k => curve[f[j]].timestamp <= curve[f[k]].timestamp }
    IN  { [k \in 1..n |-> curve[f[k]]] : f \in orders }

\* the rows in ascending timestamp order, rows with equal timestamps in the
\* order in which they were supplied
stable_sort(curve) ==
    LET n == Len(curve)
        f == CHOOSE g \in [1..n -> 1..n] :
                /\ \A j, k \in 1..n : j # k => g[j] # g[k]
                /\ \A j, k \in 1..n :
                      j < k => \/ curve[g[j]].timestamp < curve[g[k]].timestamp
                               \/ /\ curve[g[j]].timestamp = curve[g[k]].timestamp
                                  /\ g[j] < g[k]
    IN  [k \in 1..n |-> curve[f[k]]]

\* line 48: drop_duplicates(subset=['timestamp'], keep='last')
RECURSIVE drop_duplicates(_)
drop_duplicates(rows) ==
    IF rows = <<>> THEN <<>>
    ELSE IF \E j \in 2..Len(rows) : rows[j].timestamp = Head(rows).timestamp
    THEN drop_duplicates(Tail(rows))
    ELSE <<Head(rows)>> \o drop_duplicates(Tail(rows))

\* line 50: cummax() at row k
RECURSIVE cummax(_, _)
cummax(rows, k) == IF k = 1 THEN rows[1].equity
                   ELSE Max(rows[k].equity, cummax(rows, k - 1))

\* lines 50-60 on the sorted, deduplicated rows: the absolute drawdown and
\* the percentage in hundredths of a percent
drawdown_of(rows) ==
    LET drawdown == [k \in 1..Len(rows) |-> rows[k].equity - cummax(rows, k)]
        idxmin == CHOOSE k \in 1..Len(rows) :
                     /\ \A j \in 1..Len(rows) : drawdown[k] <= drawdown[j]
                     /\ \A j \in 1..(k - 1) : drawdown[j] > drawdown[k]
        max_drawdown_absolute == drawdown[idxmin]
        peak_at_max_drawdown == cummax(rows, idxmin)
    IN  [returned |-> "value",
         absolute |-> Abs(max_drawdown_absolute),
         percentage |-> IF peak_at_max_drawdown > 0
                        THEN round_half_even(10000 * Abs(max_drawdown_absolute),
                                             peak_at_max_drawdown)
                        ELSE 0]

\* calculate_max_drawdown, lines 38-60, when the sort produces sorted_rows
calculate_max_drawdown(curve, sorted_rows) ==
    IF Len(curve) < 2 THEN [returned |-> "value", absolute |-> 0, percentage |-> 0]
    ELSE drawdown_of(drop_duplicates(sorted_rows))

\* calculate_win_rate, lines 18-26; a value is in hundredths of a percent
calculate_win_rate(tr) ==
    LET winning_trades == Cardinality({ k \in 1..Len(tr) : pnl_of(tr[k])[1] > 0 })
        total_trades == Len(tr)
    IN  IF tr = <<>> THEN [returned |-> "value", value |-> 0]
        ELSE IF first_exception(tr) # "none"
        THEN [returned |-> first_exception(tr), value |-> 0]
        ELSE [returned |-> "value",
              value |-> round_half_even(10000 * winning_trades, total_trades)]

(* --------------------- the metrics on their inputs --------------------- *)
\* trade records: dicts with a PnL, with PnL None or without the key, and
\* the Trade objects that run_backtest collects
TradeRecords ==
    { [class |-> "dict", pnl |-> v] :
        v \in {NoValue, <<0 - 2, 1>>, <<0 - 1, 1>>, <<0, 1>>, <<1, 1>>, <<2, 1>>} }
    \cup { [class |-> "dict"] }
    \cup { [class |-> "Trade", pnl |-> <<1, 1>>] }

TradeLists == UNION { [1..n -> TradeRecords] : n \in 0..MaxTrades }

EquityPoints == { [timestamp |-> t, equity |-> e] : t \in {1, 2}, e \in {1, 2, 4} }

EquityCurves == UNION { [1..n -> EquityPoints] : n \in 0..MaxPoints }

InitMetrics ==
    /\ engine \in {"calculate_profit_factor", "calculate_max_drawdown", "calculate_win_rate"}
    /\ IF engine \in {"calculate_profit_factor", "calculate_win_rate"}
       THEN trades \in TradeLists /\ equity_curve = <<>>
       ELSE trades = <<>> /\ equity_curve \in EquityCurves
    /\ bot_type = "None"
    /\ bot_settings = <<>>
    /\ initial_capital = 0
    /\ historical_data = <<>>
    /\ grid_utils = "None"
    /\ pc = "ready"
    /\ run_no = 0
    /\ NoBots
    /\ i = 0
    /\ current_step = 0
    /\ current_time = None
    /\ quote_balance = 0
    /\ base_balance = 0
    /\ portfolio_value = 0
    /\ open_orders = <<>>
    /\ simulated_bot_state = EmptyBotState
    /\ grid_levels = <<>>
    /\ balance = 0
    /\ position_quantity = 0
    /\ average_entry_price = <<0, 1>>
    /\ last_price = 0
    /\ grid_states = <<>>
    /\ last_buy_timestamp = None
    /\ placed = EmptyBag
    /\ results = <<>>

inputVars == <<cfgVars, botVars, historical_data, rbVars, run_no, i, current_step, current_time,
               quote_balance, base_balance, portfolio_value, open_orders, trades,
               equity_curve, simulated_bot_state, grid_levels, placed>>

ProfitFactor ==
    /\ engine = "calculate_profit_factor"
    /\ pc = "ready"
    /\ pc' = "done"
    /\ results' = << calculate_profit_factor(trades) >>
    /\ UNCHANGED inputVars

MaxDrawdown ==
    /\ engine = "calculate_max_drawdown"
    /\ pc = "ready"
    /\ pc' = "done"
    /\ \E sorted_rows \in sort_values(equity_curve) :
          results' = << calculate_max_drawdown(equity_curve, sorted_rows) >>
    /\ UNCHANGED inputVars

WinRate ==
    /\ engine = "calculate_win_rate"
    /\ pc = "ready"
    /\ pc' = "done"
    /\ results' = << calculate_win_rate(trades) >>
    /\ UNCHANGED inputVars

NextMetrics == ProfitFactor \/ MaxDrawdown \/ WinRate

SpecMetrics == InitMetrics /\ [][NextMetrics]_vars

\* the PnL attribute of a trade record, whatever its class
Losing(trade) == "pnl" \in DOMAIN trade /\ trade.pnl # NoValue /\ trade.pnl[1] < 0

\* C17: for every trade list without a losing trade (the empty list and
\* lists without a winning trade included) calculate_profit_factor returns
\* the "infinite" sentinel and does not raise; otherwise it returns
\* sum(positive PnL) / |sum(negative PnL)|
C17_ProfitFactor ==
    (engine = "calculate_profit_factor" /\ pc = "done") =>
        LET out == results[1]
        IN  IF \A k \in 1..Len(trades) : ~Losing(trades[k])
            THEN out.returned = "inf"
            ELSE /\ out.returned = "value"
                 /\ out.value * gross_loss(trades)[1] * gross_profit(trades)[2]
                      = 100 * gross_profit(trades)[1] * gross_loss(trades)[2]

\* what the function does on dicts with a numeric PnL: 0.0 for the empty
\* list, the sentinel when the losses sum to zero, else the ratio rounded to
\* two decimals
C17_Observed ==
    (engine = "calculate_profit_factor" /\ pc = "done"
       /\ first_exception(trades) = "none") =>
        LET out == results[1]
        IN  IF trades = <<>> THEN out = [returned |-> "value", value |-> 0]
            ELSE IF \A k \in 1..Len(trades) : ~Losing(trades[k])
            THEN out.returned = "inf"
            ELSE /\ out.returned = "value"
                 /\ out.value = round_half_even(
                        100 * gross_profit(trades)[1] * gross_loss(trades)[2],
                        gross_profit(trades)[2] * gross_loss(trades)[1])

\* the drawdown of the curve sorted by timestamp with, of the points that
\* share a timestamp, the last supplied one kept
GroundTruthDrawdown(curve) ==
    IF curve = <<>> THEN [returned |-> "value", absolute |-> 0, percentage |-> 0]
    ELSE drawdown_of(drop_duplicates(stable_sort(curve)))

C18_Observed ==
    (/\ engine = "calculate_max_drawdown" /\ pc = "done"
     /\ \A j, k \in 1..Len(equity_curve) :
           j # k => equity_curve[j].timestamp # equity_curve[k].timestamp) =>
        results[1] = GroundTruthDrawdown(equity_curve)


(* ===================== properties of the fill rules ==================== *)
\* the claimed rule for a LIMIT order o on candle c with balances qb, bb:
\* the candle reaches the limit price and the funds cover the order
LimitFills(o, c, qb, bb) ==
    IF o.side = "BUY"
    THEN /\ c.Low <= o.price
         /\ qb >= o.qty * o.price * Scale + o.qty * o.price * commission_percent
    ELSE /\ c.High >= o.price
         /\ bb >= o.qty

\* The fill pass over orders on candle c, started with balances qb, bb, has
\* recorded the trades new: the LIMIT orders that the rule lets fill, and
\* only those, have a record, in the order of the pass, at the limit price;
\* the balances move on with every record.
RECURSIVE LimitRule(_, _, _, _, _)
LimitRule(orders, c, qb, bb, new) ==
    IF orders = <<>> THEN new = <<>>
    ELSE LET o == Head(orders)
             recorded == new # <<>> /\ Head(new).order_id = o.id
             next_qb == IF recorded THEN Head(new).quote_balance ELSE qb
             next_bb == IF recorded THEN Head(new).base_balance ELSE bb
             rest == IF recorded THEN Tail(new) ELSE new
         IN  /\ o.type = "LIMIT" =>
                   /\ recorded <=> LimitFills(o, c, qb, bb)
                   /\ recorded => Head(new).price = o.price /\ Head(new).quantity = o.qty
             /\ LimitRule(Tail(orders), c, next_qb, next_bb, rest)

\* C19: in the fill pass a LIMIT BUY fills exactly when the Low of the bar is
\* at or below the limit price and the cash covers cost plus commission, a
\* LIMIT SELL exactly when the High is at or above the limit price and the
\* position covers the quantity; the recorded price is the limit price.
C19_LimitFill ==
    [][BE_Bar => LimitRule(open_orders, ThisBar, quote_balance, base_balance, NewTrades)]_vars

BarAt(ts) == CHOOSE k \in 1..Len(historical_data) : historical_data[k].timestamp = ts

\* a LIMIT BUY filled on a bar whose Low went below the limit price, a LIMIT
\* SELL filled, and a LIMIT order that the bar reached is open for lack of
\* funds
C19_Witness ==
    /\ engine = "BacktestEngine" /\ pc = "loop" /\ run_no = 1
    /\ \E t \in SeqSet(trades) :
          /\ t.type = "LIMIT" /\ t.side = "BUY"
          /\ historical_data[BarAt(t.timestamp)].Low < t.price
    /\ \E t \in SeqSet(trades) : t.type = "LIMIT" /\ t.side = "SELL"
    /\ \E o \in SeqSet(open_orders) : o.type = "LIMIT" /\ Refused(o)


(* ------------- scenario: bars that open away from the close ------------ *)
\* the DCA archetype of both simulators; the bars of run_backtest carry an
\* Open of their own
InitFill ==
    /\ engine \in {"BacktestEngine", "run_backtest"}
    /\ bot_type = IF engine = "BacktestEngine" THEN "DCABot" ELSE "DCA"
    /\ bot_settings \in Settings(bot_type)
    /\ initial_capital \in Capitals(bot_type)
    /\ grid_utils = "None"
    /\ historical_data \in
          IF engine = "BacktestEngine"
          THEN { <<c>> : c \in Candles(bot_type, 0) }
          ELSE { <<a, b>> : a \in AllCandles(bot_type, 0), b \in AllCandles(bot_type, 2) }
    /\ StartState

NextFill == run \/ BE_Bar \/ BE_Finish \/ RB_Start \/ RB_Bar \/ RB_Finish

SpecFill == InitFill /\ [][NextFill]_vars

\* the MARKET fills of BacktestEngine are priced at the Open of their bar,
\* and a quote-sized BUY receives quote / Open
MarketAtOpen ==
    \A t \in SeqSet(trades) :
       t.type = "MARKET" =>
          LET bar == historical_data[BarAt(t.timestamp)]
          IN  /\ t.price = bar.Open
              /\ bot_type = "DCABot" =>
                    t.quantity = bot_settings.purchase_amount \div bar.Open

\* the executions of run_backtest are priced at the Open of their bar, and
\* a quote-sized BUY receives quote / Open
ExecutedAtOpen ==
    \A t \in SeqSet(trades) :
       t.side \in {"BUY", "SELL"} =>
          LET bar == historical_data[BarAt(t.entry_timestamp)]
          IN  /\ t.entry_price = Frac(bar.Open, 1)
              /\ bot_type = "DCA" =>
                    t.quantity = bot_settings.order_amount_quote \div bar.Open

\* C20: every market execution of a bar is priced at the Open of that bar,
\* never at its Close, High or Low, and a quote-sized market BUY receives
\* quote amount / Open units of the base asset
C20_MarketAtOpen ==
    /\ engine = "BacktestEngine" => MarketAtOpen
    /\ engine = "run_backtest" => ExecutedAtOpen

\* BacktestEngine alone prices its MARKET fills at the Open
C20_Observed == engine = "BacktestEngine" => MarketAtOpen


(* ================== properties of the ledger update ==================== *)
\* The trades new, recorded from the balances qb, bb on, move the ledger of
\* BacktestEngine as claimed: a BUY takes cost plus commission from the cash
\* and adds the quantity to the position, a SELL adds cost minus commission
\* and takes the quantity; the ledger ends at end_qb, end_bb.
RECURSIVE EngineLedger(_, _, _, _, _)
EngineLedger(new, qb, bb, end_qb, end_bb) ==
    IF new = <<>> THEN qb = end_qb /\ bb = end_bb
    ELSE LET t == Head(new)
             gross == t.quantity * t.price * Scale
             fee == t.quantity * t.price * commission_percent
         IN  /\ t.side = "BUY" =>
                   /\ t.quote_balance = qb - (gross + fee)
                   /\ t.base_balance = bb + t.quantity
             /\ t.side = "SELL" =>
                   /\ t.quote_balance = qb + (gross - fee)
                   /\ t.base_balance = bb - t.quantity
             /\ EngineLedger(Tail(new), t.quote_balance, t.base_balance, end_qb, end_bb)

\* the same for the one execution of a bar of run_backtest, at the
\* commission rate rate (in 1/Scale)
BacktestLedger(rate) ==
    /\ NewTrades = <<>> => balance' = balance /\ position_quantity' = position_quantity
    /\ \A t \in SeqSet(NewTrades) :
          LET gross == t.quantity * t.entry_price[1]
          IN  /\ t.side = "BUY" =>
                    /\ Scale * (balance - balance') = gross * (Scale + rate)
                    /\ position_quantity' = position_quantity + t.quantity
              /\ t.side = "SELL" =>
                    /\ Scale * (balance' - balance) = gross * (Scale - rate)
                    /\ position_quantity' = position_quantity - t.quantity

\* C21: a BUY fill of qty at price takes qty * price plus the commission on
\* it from the cash and adds qty to the position, a SELL fill takes qty from
\* the position and adds qty * price minus the commission to the cash;
\* nothing else moves cash or position.
C21_LedgerUpdate ==
    [][/\ BE_Bar => EngineLedger(NewTrades, quote_balance, base_balance,
                                 quote_balance', base_balance')
       /\ RB_Bar => BacktestLedger(commission_percent)]_vars

\* BacktestEngine alone updates its ledger as claimed
C21_EngineObserved ==
    [][BE_Bar => EngineLedger(NewTrades, quote_balance, base_balance,
                              quote_balance', base_balance')]_vars

\* run_backtest moves cash by qty * price, without commission
C21_BacktestObserved ==
    [][RB_Bar => \A t \in SeqSet(NewTrades) :
                    balance' - balance = CashFlow(t)]_vars


(* ==================== paired orders of the grid ======================== *)
\* candles over the prices 1, 3 and 5, around the grid 2, 3, 4
PairCandles(ts) ==
    { [timestamp |-> ts, Open |-> o, High |-> Max(o, c), Low |-> Min(o, c), Close |-> c,
       RSI |-> NaN, MACD |-> NaN, Signal |-> NaN, EMA_short |-> NaN, EMA_long |-> NaN] :
        o \in {1, 3, 5}, c \in {1, 3, 5} }

\* BacktestEngine on a GridBot with the levels 2, 3, 4 and three bars that
\* start below, inside or above the grid
InitPairs ==
    /\ engine = "BacktestEngine"
    /\ bot_type = "GridBot"
    /\ bot_settings = [lower_price |-> 2, upper_price |-> 4, num_grids |-> 2,
                       total_investment |-> 12, grid_type |-> "arithmetic"]
    /\ initial_capital = 30
    /\ grid_utils = "module"
    /\ historical_data \in { <<a, b, c>> : a \in PairCandles(1), b \in PairCandles(2),
                                           c \in PairCandles(3) }
    /\ StartState

NextPairs == run \/ BE_Bar \/ BE_Finish

SpecPairs == InitPairs /\ [][NextPairs]_vars

\* the order the claim pairs with the fill recorded as trade t on bar step
PairedOrder(t, levels, step) ==
    LET level == IndexOf(levels, t.price)
    IN  IF t.side = "BUY" /\ level >= 1 /\ level < Len(levels)
        THEN << [id |-> <<"sim_grid_sell", levels[level + 1], step>>, type |-> "LIMIT",
                 side |-> "SELL", price |-> levels[level + 1], qty |-> t.quantity,
                 quoteOrderQty |-> None] >>
        ELSE IF t.side = "SELL" /\ level > 1
        THEN << [id |-> <<"sim_grid_buy", levels[level - 1], step>>, type |-> "LIMIT",
                 side |-> "BUY", price |-> levels[level - 1], qty |-> t.quantity,
                 quoteOrderQty |-> None] >>
        ELSE <<>>

RECURSIVE PairedOrders(_, _, _)
PairedOrders(ts, levels, step) ==
    IF ts = <<>> THEN EmptyBag
    ELSE SeqToBag(PairedOrder(Head(ts), levels, step)) (+) PairedOrders(Tail(ts), levels, step)

OnGrid(orders) == \A o \in SeqSet(orders) : IndexOf(grid_levels, o.price) # 0

\* C22: in a GridBot run of BacktestEngine every fill of a LIMIT BUY at level
\* i places exactly one LIMIT SELL of the same quantity at level i+1, every
\* fill of a LIMIT SELL at level i places exactly one LIMIT BUY of the same
\* quantity at level i-1, a BUY fill at the top level and a SELL fill at the
\* bottom level place nothing, and every open order is priced at a grid level.
C22_PairedOrders ==
    [][(bot_type = "GridBot" /\ (BE_Bar \/ run)) =>
          /\ BE_Bar => placed' = placed (+) PairedOrders(NewTrades, grid_levels, i)
          /\ OnGrid(open_orders) => OnGrid(open_orders)']_vars

\* a bar on which a BUY fill below the top level has placed its SELL, together
\* with a BUY fill at the top level, which has placed nothing
C22_Witness ==
    /\ engine = "BacktestEngine" /\ bot_type = "GridBot" /\ pc = "loop" /\ i >= 1
    /\ \E t \in SeqSet(trades) :
          /\ t.side = "BUY" /\ t.timestamp = current_time
          /\ IndexOf(grid_levels, t.price) = Len(grid_levels)
    /\ \E t \in SeqSet(trades) :
          /\ t.side = "BUY" /\ t.timestamp = current_time
          /\ IndexOf(grid_levels, t.price) \in 1..(Len(grid_levels) - 1)
          /\ \E o \in SeqSet(open_orders) :
                /\ o.side = "SELL" /\ o.qty = t.quantity
                /\ o.price = grid_levels[IndexOf(grid_levels, t.price) + 1]
                /\ o.id = <<"sim_grid_sell", o.price, current_step>>

\* a SELL fill above the bottom level has placed its BUY one level below
C22_SellWitness ==
    /\ engine = "BacktestEngine" /\ bot_type = "GridBot" /\ pc = "loop" /\ i >= 1
    /\ \E t \in SeqSet(trades) :
          /\ t.side = "SELL" /\ t.timestamp = current_time
          /\ \E o \in SeqSet(open_orders) :
                /\ o.side = "BUY" /\ o.qty = t.quantity
                /\ o.price = grid_levels[IndexOf(grid_levels, t.price) - 1]
                /\ o.id = <<"sim_grid_buy", o.price, current_step>>


(* ========================== terminal step ============================== *)
FinalClose == historical_data[Len(historical_data)].Close

\* the trade t closes the run_backtest position pos held at average entry avg
ClosesPosition(t, pos, avg) ==
    /\ t.side = "CLOSE"
    /\ t.exit_price = Frac(FinalClose, 1)
    /\ t.quantity = pos
    /\ t.pnl[1] * avg[2] = (FinalClose * avg[2] - avg[1]) * pos * t.pnl[2]

\* the terminal step of run_backtest as the claim states it
BacktestTerminal ==
    /\ position_quantity > 0 =>
          Len(NewTrades) = 1 /\ ClosesPosition(NewTrades[1], position_quantity,
                                               average_entry_price)
    /\ position_quantity = 0 => NewTrades = <<>>
    /\ equity_curve'[Len(equity_curve')].equity = balance + position_quantity * FinalClose

\* the terminal step of BacktestEngine.run as the claim states it
EngineTerminal ==
    /\ base_balance > 0 =>
          /\ Len(NewTrades) = 1
          /\ NewTrades[1].side = "CLOSE"
          /\ NewTrades[1].price = FinalClose
          /\ NewTrades[1].quantity = base_balance
    /\ base_balance = 0 => NewTrades = <<>>
    /\ portfolio_value' = quote_balance + base_balance * FinalClose * Scale

C23_EngineObserved == [][BE_Finish => trades' = trades]_vars

\* run_backtest closes as claimed every position of more than 1e-9, and only
\* those
C23_BacktestObserved ==
    [][RB_Finish =>
          /\ position_quantity > Epsilon =>
                Len(NewTrades) = 1 /\ ClosesPosition(NewTrades[1], position_quantity,
                                                     average_entry_price)
          /\ position_quantity <= Epsilon => NewTrades = <<>>
          /\ equity_curve'[Len(equity_curve')].equity
                = balance + position_quantity * FinalClose]_vars

\* run_backtest alone against the claim
C23_BacktestClaim == [][RB_Finish => BacktestTerminal]_vars


(* ======================= Momentum never pyramids ======================= *)
MomentumRun == bot_type \in {"MomentumBot", "Momentum"}

MomentumQuantity ==
    IF engine = "BacktestEngine"
    THEN get(bot_settings, "order_quantity", DEFAULT_ORDER_QUANTITY)
    ELSE get(bot_settings, "order_quantity", 0)

\* the position before and after the fill recorded as trade number k
PositionBefore(k) ==
    IF engine = "BacktestEngine" THEN trades'[k].base_balance - trades'[k].quantity
    ELSE position_quantity

\* the BUY orders the decision pass of this bar has emitted
EmittedBuys ==
    { o \in BagToSet(placed' (-) placed) : o.type = "MARKET" /\ o.side = "BUY" }

\* C24: in a Momentum run the position is 0 or exactly one order quantity
\* after every bar, also after a bar whose fill was refused for insufficient
\* balance; no BUY fills, and no BUY is emitted, while a position is open.
C24_NoPyramiding ==
    [][(MomentumRun /\ (BE_Bar \/ RB_Bar)) =>
          /\ base_balance' \in {0, MomentumQuantity}
          /\ position_quantity' \in {0, MomentumQuantity}
          /\ \A k \in (Len(trades) + 1)..Len(trades') :
                trades'[k].side = "BUY" => PositionBefore(k) = 0
          /\ EmittedBuys # {} => base_balance' = 0]_vars

\* a BacktestEngine run holds one order quantity, bought by an order that an
\* earlier bar refused for insufficient balance
C24_Witness ==
    /\ engine = "BacktestEngine" /\ bot_type = "MomentumBot"
    /\ base_balance = MomentumQuantity /\ base_balance > 0
    /\ \E k \in 1..Len(historical_data), t \in SeqSet(trades) :
          /\ t.side = "BUY" /\ t.order_id[2] < k - 1
          /\ t.timestamp <= t.order_id[2] + 1
          /\ historical_data[k].Open * t.quantity * (Scale + commission_percent)
                > initial_capital * Scale

\* a run_backtest run holds one order quantity and its policy sees a BUY
\* reading again: nothing is bought
C24_BacktestWitness ==
    /\ engine = "run_backtest" /\ bot_type = "Momentum" /\ pc = "loop" /\ i >= 2
    /\ position_quantity = MomentumQuantity /\ position_quantity > 0
    /\ historical_data[i].RSI < DEFAULT_RSI_OVERSOLD
    /\ historical_data[i].EMA_short > historical_data[i].EMA_long
    /\ Len(trades) = 1 /\ trades[1].entry_timestamp < historical_data[i].timestamp


(* ========================= Grid policy of run_backtest ================= *)
GridBar == RB_Bar /\ bot_type = "Grid" /\ i' = i + 1

BarClose == historical_data'[i + 1].Close

GridQuantity == get(bot_settings, "order_quantity", 0)

\* the empty levels that the close of this bar crosses downward
DownCrossed ==
    { l \in DOMAIN grid_states :
         last_price > l /\ l >= BarClose /\ grid_states[l] = "empty" }

Lowest(S) == CHOOSE l \in S : \A o \in S : l <= o

Highest(S) == CHOOSE l \in S : \A o \in S : o <= l

Affordable == balance >= GridQuantity * BarClose

\* this bar buys one grid quantity for the lowest of the levels in DownCrossed
BuysLowest ==
    /\ Len(NewTrades) = 1
    /\ NewTrades[1].side = "BUY" /\ NewTrades[1].quantity = GridQuantity
    /\ grid_states' = [grid_states EXCEPT ![Lowest(DownCrossed)] = "bought"]

NoGridTrade == NewTrades = <<>> /\ grid_states' = grid_states

\* C25: a bar that crosses an empty level downward buys one grid quantity and
\* marks that level occupied; a bar trades at most once; only the first
\* crossed empty level in ascending order trades and no other level changes.
C25_GridBuys ==
    [][GridBar => /\ Len(NewTrades) <= 1
                  /\ DownCrossed # {} => BuysLowest]_vars

\* C25, amended: the purchase needs the balance to cover one grid quantity at
\* the close of the bar; without it the bar does not trade and no level changes.
C25_GridBuysAffordable ==
    [][GridBar => /\ Len(NewTrades) <= 1
                  /\ (DownCrossed # {} /\ Affordable) => BuysLowest
                  /\ (DownCrossed # {} /\ ~Affordable) => NoGridTrade]_vars

\* the bar just processed fell through two empty levels and bought for the
\* lower one only
C25_Witness ==
    /\ engine = "run_backtest" /\ bot_type = "Grid" /\ pc = "loop" /\ i >= 2
    /\ LET before == historical_data[i - 1].Close
           now == historical_data[i].Close
           crossed == { l \in DOMAIN grid_states : before > l /\ l >= now }
       IN  /\ Cardinality(crossed) >= 2
           /\ Len(trades) = 1 /\ trades[1].side = "BUY"
           /\ trades[1].entry_timestamp = historical_data[i].timestamp
           /\ \A l \in DOMAIN grid_states :
                 grid_states[l] = "bought" <=> l = Lowest(crossed)

\* the bar just processed crossed an empty level downward without the balance
\* for one grid quantity: nothing was bought
C25_Unaffordable ==
    /\ engine = "run_backtest" /\ bot_type = "Grid" /\ pc = "loop" /\ i >= 2
    /\ historical_data[i - 1].Close > historical_data[i].Close
    /\ balance < GridQuantity * historical_data[i].Close
    /\ trades = <<>>
    /\ \A l \in DOMAIN grid_states : grid_states[l] = "empty"


\* the levels that the close of this bar crosses upward
UpCrossed == { l \in DOMAIN grid_states : last_price < l /\ l <= BarClose }

OccupiedBelow(level) ==
    { l \in DOMAIN grid_states : grid_states[l] = "bought" /\ l < level }

\* this bar sells one grid quantity and empties the highest occupied level
\* below the lowest level of S
SellsBelow(S) ==
    /\ Len(NewTrades) = 1
    /\ NewTrades[1].side = "SELL" /\ NewTrades[1].quantity = GridQuantity
    /\ grid_states' = [grid_states EXCEPT ![Highest(OccupiedBelow(Lowest(S)))] = "empty"]

\* C26: every bar that crosses a level upward with an occupied level strictly
\* below it sells one grid quantity and empties the highest occupied level
\* below the crossed one, whether the crossed level itself is occupied or not.
C26_GridSells ==
    [][GridBar =>
          LET qualifying == { l \in UpCrossed : OccupiedBelow(l) # {} }
          IN  qualifying # {} => SellsBelow(qualifying)]_vars

\* what run_backtest does: only a crossed level that is itself empty sells
C26_Observed ==
    [][GridBar =>
          LET qualifying == { l \in UpCrossed : /\ grid_states[l] = "empty"
                                                /\ OccupiedBelow(l) # {} }
          IN  /\ (qualifying # {} /\ position_quantity >= GridQuantity)
                    => SellsBelow(qualifying)
              /\ (UpCrossed # {} /\ qualifying = {}) => NoGridTrade]_vars


(* ============================ DCA schedule ============================= *)
DCAInterval ==
    IF engine = "BacktestEngine"
    THEN get(bot_settings, "purchase_frequency_hours", DEFAULT_PURCHASE_FREQUENCY_HOURS)
    ELSE bot_settings.buy_interval_seconds

\* the time at which the next purchase is due, None before the first bar of
\* BacktestEngine; run_backtest keeps it as last_buy_timestamp + interval
NextPurchaseTime ==
    IF engine = "BacktestEngine" THEN simulated_bot_state.next_purchase_time
    ELSE last_buy_timestamp + DCAInterval

\* this bar step is a DCA bar on which a purchase is emitted
PurchaseFires ==
    \/ BE_Bar /\ bot_type = "DCABot" /\ placed' # placed
    \/ RB_Bar /\ bot_type = "DCA" /\ NewTrades # <<>>

\* C27: after a scheduled purchase has fired, on a bar at or after the
\* scheduled time, the next purchase time is the scheduled time plus the
\* interval, not the time of the firing bar plus the interval.
C27_ScheduleAnchored ==
    [][(PurchaseFires /\ NextPurchaseTime # None) =>
          NextPurchaseTime' = NextPurchaseTime + DCAInterval]_vars

\* both simulators anchor the schedule at the bar that fired
C27_Observed ==
    [][PurchaseFires =>
          NextPurchaseTime' = historical_data'[i + 1].timestamp + DCAInterval]_vars


(* ----------------------- bar series with gaps -------------------------- *)
\* four flat bars, each 1, 3 or 5 time units after the one before
GapBars ==
    { [k \in 1..4 |-> kline_at(1 + g[1] * (IF k > 1 THEN 1 ELSE 0)
                                 + g[2] * (IF k > 2 THEN 1 ELSE 0)
                                 + g[3] * (IF k > 3 THEN 1 ELSE 0), 1)] :
        g \in [1..3 -> {1, 3, 5}] }

\* DCA with an interval of 2 time units and capital for every purchase, on
\* both simulators
InitGaps ==
    /\ engine \in {"BacktestEngine", "run_backtest"}
    /\ bot_type = IF engine = "BacktestEngine" THEN "DCABot" ELSE "DCA"
    /\ bot_settings = IF engine = "BacktestEngine"
                      THEN [purchase_amount |-> 2, purchase_frequency_hours |-> 2]
                      ELSE [buy_interval_seconds |-> 2, order_amount_quote |-> 2]
    /\ initial_capital = 10
    /\ grid_utils = "None"
    /\ historical_data \in GapBars
    /\ StartState

SpecGaps == InitGaps /\ [][Next]_vars

BarTime == historical_data'[i + 1].timestamp

DCABar == (BE_Bar /\ bot_type = "DCABot") \/ (RB_Bar /\ bot_type = "DCA" /\ i' = i + 1)

\* the times of the BUY records of the trade list tr
BuyTimes(tr) ==
    [k \in 1..Len(tr) |-> IF engine = "BacktestEngine" THEN tr[k].timestamp
                          ELSE tr[k].entry_timestamp]

Distinct(s) == \A j, k \in 1..Len(s) : j # k => s[j] # s[k]

\* C28: a DCA bar emits at most one purchase, however many intervals were
\* missed; after a purchase the next purchase time is strictly later than the
\* time of the bar; no two purchases of a run are on the same bar.
C28_CatchUp ==
    [][DCABar =>
          /\ BagCardinality(placed' (-) placed) <= 1
          /\ Len(NewTrades) <= 1
          /\ PurchaseFires => NextPurchaseTime' > BarTime
          /\ Distinct(BuyTimes(trades'))]_vars

\* the bar just processed came at least two intervals after the scheduled
\* time, one purchase was made for it, and the next one is due after the bar
C28_Witness ==
    /\ bot_type \in {"DCABot", "DCA"} /\ pc = "loop" /\ i >= 2
    /\ LET bar == historical_data[i].timestamp
           before == historical_data[i - 1].timestamp
       IN  /\ bar - before >= 2 * DCAInterval
           /\ NextPurchaseTime = bar + DCAInterval
           /\ engine = "BacktestEngine" =>
                 /\ Cardinality({ o \in SeqSet(open_orders) : o.id = <<"sim_dca", i - 1>> }) = 1
                 /\ simulated_bot_state.last_purchase_time = bar
           /\ engine = "run_backtest" =>
                 Cardinality({ k \in 1..Len(trades) : trades[k].entry_timestamp = bar }) = 1


(* ============================== win rate =============================== *)
\* the trade record carries a realized PnL value
CarriesPnL(trade) == "pnl" \in DOMAIN trade /\ trade.pnl # NoValue

Winning(trade) == CarriesPnL(trade) /\ trade.pnl[1] > 0

\* the records of a BUY: no PnL key, or a PnL of None
BuyRecords == { r \in TradeRecords : ~CarriesPnL(r) }

\* C29: calculate_win_rate returns 100 * (trades with realized PnL > 0) /
\* (trades that carry a realized PnL); BUY records, which carry none, are not
\* in the denominator, so adding BUY records does not change the win rate.
C29_WinRate ==
    (engine = "calculate_win_rate" /\ pc = "done") =>
        LET out == results[1]
            carrying == Count(trades, CarriesPnL)
        IN  /\ carrying > 0 =>
                  /\ out.returned = "value"
                  /\ out.value = round_half_even(10000 * Count(trades, Winning), carrying)
            /\ \A b \in BuyRecords : calculate_win_rate(Append(trades, b)) = out

\* what the function does on dicts: it divides by the number of all
\* records, and a record whose PnL is None stops it with a TypeError
C29_Observed ==
    (engine = "calculate_win_rate" /\ pc = "done") =>
        LET out == results[1]
        IN  IF trades = <<>> THEN out = [returned |-> "value", value |-> 0]
            ELSE IF \E k \in 1..Len(trades) : trades[k].class = "Trade"
            THEN out.returned \in {"AttributeError", "TypeError"}
            ELSE IF \E k \in 1..Len(trades) : "pnl" \in DOMAIN trades[k] /\ trades[k].pnl = NoValue
            THEN out.returned = "TypeError"
            ELSE /\ out.returned = "value"
                 /\ out.value = round_half_even(10000 * Count(trades, Winning), Len(trades))


(* ============================ grid levels ============================== *)
\* bounds and grid counts on which the levels are whole numbers: the grid
\* count divides the range and the ratio of the bounds has an exact root
LevelInputs ==
    { s \in [lower_bound : 2..4, upper_bound : 4..16, num_grids : 1..MaxLevels] :
         /\ s.lower_bound < s.upper_bound
         /\ (s.upper_bound - s.lower_bound) % (2 * s.num_grids) = 0
         /\ \E r \in 1..s.upper_bound :
               Pow(r, s.num_grids) * s.lower_bound = s.upper_bound }

\* the two level functions of grid.py and the Grid initialization of
\* run_backtest on the same bounds and grid count
InitLevels ==
    /\ engine \in {"calculate_arithmetic_grid_levels", "calculate_geometric_grid_levels",
                   "run_backtest"}
    /\ bot_type = IF engine = "run_backtest" THEN "Grid" ELSE "None"
    /\ \E s \in LevelInputs, q \in {1, 3} :
          bot_settings = [lower_bound |-> s.lower_bound, upper_bound |-> s.upper_bound,
                          num_grids |-> s.num_grids, order_quantity |-> q]
    /\ initial_capital = 3
    /\ grid_utils = "None"
    /\ historical_data \in IF engine = "run_backtest"
                           THEN { <<kline_at(1, p)>> : p \in {2, 4} } ELSE { <<>> }
    /\ pc = "ready"
    /\ run_no = 0
    /\ NoBots
    /\ i = 0
    /\ current_step = 0
    /\ current_time = None
    /\ quote_balance = 0
    /\ base_balance = 0
    /\ portfolio_value = 0
    /\ open_orders = <<>>
    /\ trades = <<>>
    /\ equity_curve = <<>>
    /\ simulated_bot_state = EmptyBotState
    /\ grid_levels = <<>>
    /\ balance = 0
    /\ position_quantity = 0
    /\ average_entry_price = <<0, 1>>
    /\ last_price = 0
    /\ grid_states = <<>>
    /\ last_buy_timestamp = None
    /\ placed = EmptyBag
    /\ results = <<>>

ArithmeticLevels ==
    /\ engine = "calculate_arithmetic_grid_levels"
    /\ pc = "ready"
    /\ pc' = "done"
    /\ grid_levels' = calculate_arithmetic_grid_levels(bot_settings.lower_bound,
                          bot_settings.upper_bound, bot_settings.num_grids)
    /\ UNCHANGED <<cfgVars, botVars, historical_data, run_no, i, current_step, current_time,
                   quote_balance, base_balance, portfolio_value, open_orders, trades,
                   equity_curve, simulated_bot_state, balance, position_quantity,
                   average_entry_price, last_price, grid_states, last_buy_timestamp,
                   placed, results>>

GeometricLevels ==
    /\ engine = "calculate_geometric_grid_levels"
    /\ pc = "ready"
    /\ pc' = "done"
    /\ grid_levels' = calculate_geometric_grid_levels(bot_settings.lower_bound,
                          bot_settings.upper_bound, bot_settings.num_grids)
    /\ UNCHANGED <<cfgVars, botVars, historical_data, run_no, i, current_step, current_time,
                   quote_balance, base_balance, portfolio_value, open_orders, trades,
                   equity_curve, simulated_bot_state, balance, position_quantity,
                   average_entry_price, last_price, grid_states, last_buy_timestamp,
                   placed, results>>

NextLevels == ArithmeticLevels \/ GeometricLevels \/ RB_Start \/ RB_Bar \/ RB_Finish

SpecLevels == InitLevels /\ [][NextLevels]_vars

\* n+1 strictly ascending levels from lower to upper
WellFormed(levels, lower, upper, n) ==
    /\ Len(levels) = n + 1
    /\ \A k \in 1..(Len(levels) - 1) : levels[k] < levels[k + 1]
    /\ levels[1] = lower
    /\ levels[Len(levels)] = upper

LevelsComputed ==
    \/ engine \in {"calculate_arithmetic_grid_levels", "calculate_geometric_grid_levels"}
         /\ pc = "done"
    \/ engine = "run_backtest" /\ bot_type = "Grid" /\ pc = "loop"

\* C30: for lower > 0, upper > lower and n >= 1, n = 1 included, the
\* arithmetic and the geometric level function return exactly n+1 strictly
\* ascending levels, the first equal to lower and the last equal to upper, and
\* a Grid simulation with the same settings uses the same n+1 levels.
C30_GridLevels ==
    LevelsComputed =>
        /\ WellFormed(grid_levels, bot_settings.lower_bound, bot_settings.upper_bound,
                      bot_settings.num_grids)
        /\ engine = "run_backtest" =>
              grid_levels = calculate_arithmetic_grid_levels(bot_settings.lower_bound,
                                bot_settings.upper_bound, bot_settings.num_grids)

\* what the code returns: for n >= 2 the functions give the n+1 levels and
\* run_backtest gives n levels from lower to upper; for n = 1 the functions
\* give the single middle level and run_backtest has no level at all
C30_Observed ==
    LevelsComputed =>
        LET lower == bot_settings.lower_bound
            upper == bot_settings.upper_bound
            n == bot_settings.num_grids
        IN  IF engine = "run_backtest"
            THEN IF n = 1 THEN grid_levels = <<>>
                 ELSE WellFormed(grid_levels, lower, upper, n - 1)
            ELSE IF n = 1 THEN grid_levels = << (lower + upper) \div 2 >>
                 ELSE WellFormed(grid_levels, lower, upper, n)


(* ========================== PnL reconciliation ========================= *)
\* sum of the realized PnL of the records of tr whose side is in sides
RECURSIVE SumPnL(_, _)
SumPnL(tr, sides) ==
    IF tr = <<>> THEN <<0, 1>>
    ELSE IF Head(tr).side \in sides THEN FracAdd(Head(tr).pnl, SumPnL(Tail(tr), sides))
    ELSE SumPnL(Tail(tr), sides)

\* cash + average entry price * position = initial capital + realized PnL
Reconciled ==
    LET realized == SumPnL(trades, {"SELL"})
    IN  (balance * average_entry_price[2] + average_entry_price[1] * position_quantity)
           * realized[2]
        = (initial_capital * realized[2] + realized[1]) * average_entry_price[2]

\* the PnL of all SELL and CLOSE records is final equity - initial capital
ReconciledAtEnd ==
    LET closed == SumPnL(trades, {"SELL", "CLOSE"})
        final_equity == equity_curve[Len(equity_curve)].equity
    IN  closed[1] = (final_equity - initial_capital) * closed[2]

BacktestRun == engine = "run_backtest" /\ historical_data # <<>>

\* C31: in run_backtest, after every bar, cash + average entry price *
\* position = initial capital + the realized PnL of the SELL records so far;
\* at the end of a run the PnL of all SELL and CLOSE records sums to final
\* equity - initial capital.
C31_Reconciliation ==
    /\ (BacktestRun /\ pc = "loop") => Reconciled
    /\ (BacktestRun /\ pc = "done") => ReconciledAtEnd

\* every BUY so far has left a position of more than 1e-9
NoTinyPosition ==
    \A k \in 1..Len(trades) :
        trades[k].side = "BUY" =>
            Count(SubSeq(trades, 1, k), LAMBDA t : t.side = "BUY") * trades[k].quantity
              - Count(SubSeq(trades, 1, k), LAMBDA t : t.side = "SELL") * trades[k].quantity
            > Epsilon

\* the reconciliation holds in the runs whose positions exceed the tolerance
C31_Observed ==
    /\ (BacktestRun /\ pc = "loop" /\ NoTinyPosition) => Reconciled
    /\ (BacktestRun /\ pc = "done" /\ NoTinyPosition) => ReconciledAtEnd


(* ===================== grid occupancy and the ledger =================== *)
\* four-bar price paths over the closes 1, 2 and 3
SmallGridPaths == { [k \in 1..4 |-> kline_at(k, p[k])] : p \in [1..4 -> {1, 2, 3}] }

\* run_backtest on a Grid with the levels 1, 2, 3 (np.linspace(1, 3, 3)), a
\* per-grid quantity below and above the 1e-9 tolerance, and capital for every
\* purchase
InitSmallGrid ==
    /\ engine = "run_backtest"
    /\ bot_type = "Grid"
    /\ bot_settings \in { [lower_bound |-> 1, upper_bound |-> 3, num_grids |-> 3,
                           order_quantity |-> q] : q \in {1, 3} }
    /\ initial_capital = 20
    /\ grid_utils = "None"
    /\ historical_data \in SmallGridPaths
    /\ StartState

SpecSmallGrid == InitSmallGrid /\ [][NextGrid]_vars

Occupied(states) == { l \in DOMAIN states : states[l] = "bought" }

\* C32: in a Grid run of run_backtest, after every bar the position is the
\* number of levels marked 'bought' times the order quantity; a level is
\* marked 'bought' only on a bar that executes the BUY and reset to 'empty'
\* only on a bar that executes the SELL.
C32_OccupancyMatchesLedger ==
    [][GridBar =>
          /\ position_quantity' = Cardinality(Occupied(grid_states')) * GridQuantity
          /\ Occupied(grid_states') \ Occupied(grid_states) # {} =>
                Len(NewTrades) = 1 /\ NewTrades[1].side = "BUY"
          /\ Occupied(grid_states) \ Occupied(grid_states') # {} =>
                Len(NewTrades) = 1 /\ NewTrades[1].side = "SELL"]_vars

\* with a per-grid quantity of at least 1e-9 the occupancy matches the ledger
C32_Observed ==
    [][(GridBar /\ GridQuantity >= Epsilon) =>
          /\ position_quantity' = Cardinality(Occupied(grid_states')) * GridQuantity
          /\ Occupied(grid_states') \ Occupied(grid_states) # {} =>
                Len(NewTrades) = 1 /\ NewTrades[1].side = "BUY"
          /\ Occupied(grid_states) \ Occupied(grid_states') # {} =>
                Len(NewTrades) = 1 /\ NewTrades[1].side = "SELL"]_vars


(* ================== orders wait for the next bar ======================= *)
\* the orders created by this bar step, by the fill pass or the decision pass
CreatedOrders == placed' (-) placed

C33_LastBarWitness ==
    /\ engine = "BacktestEngine" /\ pc = "done" /\ run_no = 1
    /\ \E o \in SeqSet(open_orders) :
          o.type = "MARKET" /\ o.id[2] = Len(historical_data) - 1


(* ====================== the Momentum decision rule ===================== *)
\* the indicator values of a window on which every indicator is defined
DefinedReadings ==
    {<<20, 2, 1, 2, 1>>, <<50, 2, 1, 2, 1>>, <<50, 1, 2, 2, 1>>, <<80, 1, 2, 1, 2>>}

\* a bar at the price 1 with the indicator values m
momentum_bar(ts, m) ==
    [timestamp |-> ts, Open |-> 1, High |-> 1, Low |-> 1, Close |-> 1,
     RSI |-> m[1], MACD |-> m[2], Signal |-> m[3], EMA_short |-> m[4], EMA_long |-> m[5]]

\* a Momentum run of either simulator on four bars: the first window is too
\* short for any indicator, the three that follow define every indicator;
\* the capital covers every purchase
InitMomentum ==
    /\ engine \in {"BacktestEngine", "run_backtest"}
    /\ bot_type = IF engine = "BacktestEngine" THEN "MomentumBot" ELSE "Momentum"
    /\ bot_settings = IF engine = "BacktestEngine" THEN [order_quantity |-> 1]
                      ELSE [order_quantity |-> 1, ema_long_period |-> 1]
    /\ initial_capital = 3
    /\ grid_utils = "None"
    /\ historical_data \in
          { << momentum_bar(1, <<NaN, NaN, NaN, NaN, NaN>>), momentum_bar(2, a),
               momentum_bar(3, b), momentum_bar(4, c) >> :
              a \in DefinedReadings, b \in DefinedReadings, c \in DefinedReadings }
    /\ StartState

SpecMomentum == InitMomentum /\ [][Next]_vars

\* a bar of a Momentum run, and the bar it processes
MomentumBar == MomentumRun /\ (BE_Bar \/ RB_Bar) /\ i' = i + 1

AllDefined(bar) ==
    {bar.RSI, bar.MACD, bar.Signal, bar.EMA_short, bar.EMA_long} \cap {NaN, Raise, None} = {}

\* the position the decision of this bar sees: BacktestEngine decides after
\* the fill pass of the bar
PositionSeen == IF engine = "BacktestEngine" THEN base_balance' ELSE position_quantity

BuyRule(bar) ==
    /\ bar.RSI < get(bot_settings, "rsi_oversold", DEFAULT_RSI_OVERSOLD)
    /\ bar.MACD > bar.Signal
    /\ bar.EMA_short > bar.EMA_long
    /\ PositionSeen = 0

SellRule(bar) ==
    /\ \/ bar.RSI > get(bot_settings, "rsi_overbought", DEFAULT_RSI_OVERBOUGHT)
       \/ bar.EMA_short < bar.EMA_long
    /\ PositionSeen > 0

\* the quantities of the decisions of this bar for one side: the orders that
\* BacktestEngine's decision pass has placed, the records that run_backtest
\* has written at the close
Emitted(side) ==
    IF engine = "BacktestEngine"
    THEN { o.qty : o \in { p \in BagToSet(CreatedOrders) : p.type = "MARKET" /\ p.side = side } }
    ELSE { t.quantity : t \in { r \in SeqSet(NewTrades) : r.side = side } }

\* C34: on a bar of a Momentum run with all indicators defined a BUY is
\* emitted exactly when RSI < oversold, MACD line > signal line, short EMA >
\* long EMA and no position is open; otherwise a SELL of the entire position
\* is emitted exactly when (RSI > overbought or short EMA < long EMA) and a
\* position is open; in every other case nothing is emitted.
C34_MomentumDecision ==
    [][(MomentumBar /\ AllDefined(ThisBar)) =>
          /\ Emitted("BUY") # {} <=> BuyRule(ThisBar)
          /\ Emitted("SELL") # {} <=> (~BuyRule(ThisBar) /\ SellRule(ThisBar))
          /\ Emitted("SELL") \subseteq {PositionSeen}]_vars

\* the same for run_backtest: past the warm-up bars, a BUY that the balance
\* covers
C34_BacktestObserved ==
    [][(MomentumBar /\ engine = "run_backtest" /\ AllDefined(ThisBar)
          /\ i >= get(bot_settings, "ema_long_period", DEFAULT_EMA_LONG_PERIOD)) =>
          /\ Emitted("BUY") # {} <=>
                /\ BuyRule(ThisBar)
                /\ MomentumQuantity > 0
                /\ balance >= MomentumQuantity * ThisBar.Close
          /\ Emitted("BUY") \subseteq {MomentumQuantity}
          /\ Emitted("SELL") # {} <=> (~BuyRule(ThisBar) /\ SellRule(ThisBar))
          /\ Emitted("SELL") \subseteq {PositionSeen}]_vars

\* what BacktestEngine does instead: an order of the fixed quantity on a
\* crossing of the MACD line and the signal line, whatever RSI and the EMAs
C34_EngineObserved ==
    [][(MomentumBar /\ engine = "BacktestEngine" /\ AllDefined(ThisBar)) =>
          LET prev == simulated_bot_state.last_indicators
              crossed_up == /\ ThisBar.MACD > ThisBar.Signal
                            /\ prev # <<>> /\ Le(prev[1], prev[2])
              crossed_down == /\ ThisBar.MACD < ThisBar.Signal
                              /\ prev # <<>> /\ Ge(prev[1], prev[2])
          IN  /\ Emitted("BUY") # {} <=>
                    (crossed_up /\ ~simulated_bot_state.position_open)
              /\ Emitted("SELL") # {} <=>
                    (crossed_down /\ simulated_bot_state.position_open)
              /\ Emitted("BUY") \cup Emitted("SELL") \subseteq {MomentumQuantity}]_vars


(* ========================= the Momentum warm-up ======================== *)
\* indicator values of a window that is long enough for the MACD and the
\* EMAs and too short for the RSI
PartialReadings == {<<NaN, 1, 2, 2, 1>>, <<NaN, 2, 1, 2, 1>>}

\* a Momentum run of either simulator on four bars: no indicator is defined
\* on the first, the RSI may stay undefined on the three that follow
InitWarmUp ==
    /\ engine \in {"BacktestEngine", "run_backtest"}
    /\ bot_type = IF engine = "BacktestEngine" THEN "MomentumBot" ELSE "Momentum"
    /\ bot_settings = IF engine = "BacktestEngine" THEN [order_quantity |-> 1]
                      ELSE [order_quantity |-> 1, ema_long_period |-> 1]
    /\ initial_capital = 3
    /\ grid_utils = "None"
    /\ historical_data \in
          { << momentum_bar(1, <<NaN, NaN, NaN, NaN, NaN>>), momentum_bar(2, a),
               momentum_bar(3, b), momentum_bar(4, c) >> :
              a \in PartialReadings \cup DefinedReadings,
              b \in PartialReadings \cup DefinedReadings,
              c \in PartialReadings \cup DefinedReadings }
    /\ StartState

SpecWarmUp == InitWarmUp /\ [][Next]_vars

Missing(values) == values \cap {NaN, Raise, None} # {}

\* a value that the policy of the simulator computes for this bar is
\* undefined: run_backtest computes RSI, MACD line, signal line and the two
\* EMAs, and skips the bars before ema_long_period; BacktestEngine computes
\* RSI, MACD line and signal line and keeps the MACD values of the bar before
UndefinedIndicator(bar) ==
    IF engine = "run_backtest"
    THEN \/ Missing({bar.RSI, bar.MACD, bar.Signal, bar.EMA_short, bar.EMA_long})
         \/ i < get(bot_settings, "ema_long_period", DEFAULT_EMA_LONG_PERIOD)
    ELSE \/ Missing({bar.RSI, bar.MACD, bar.Signal})
         \/ simulated_bot_state.last_indicators = <<>>
         \/ Missing({simulated_bot_state.last_indicators[1],
                     simulated_bot_state.last_indicators[2]})

NothingEmitted == Emitted("BUY") = {} /\ Emitted("SELL") = {}

EquityRecorded == Len(equity_curve') = Len(equity_curve) + 1

\* C35: on every bar of a Momentum run where a required indicator value (RSI,
\* MACD line, signal line, an EMA, or the previous MACD values of the
\* crossover test) is undefined, the policy emits no order and the ledger is
\* unchanged, while the equity point of the bar is recorded.
C35_WarmUp ==
    [][(MomentumBar /\ UndefinedIndicator(ThisBar)) =>
          /\ NothingEmitted
          /\ UNCHANGED <<quote_balance, base_balance, balance, position_quantity, trades>>
          /\ EquityRecorded]_vars

\* the same for run_backtest alone
C35_BacktestObserved ==
    [][(MomentumBar /\ engine = "run_backtest" /\ UndefinedIndicator(ThisBar)) =>
          /\ NothingEmitted
          /\ UNCHANGED <<balance, position_quantity, average_entry_price, trades>>
          /\ EquityRecorded]_vars

\* BacktestEngine emits nothing on a bar where the MACD line, the signal
\* line or the MACD values of the bar before are undefined, whatever the RSI,
\* and records the equity point
C35_EngineObserved ==
    [][(MomentumBar /\ engine = "BacktestEngine"
          /\ (\/ Missing({ThisBar.MACD, ThisBar.Signal})
              \/ simulated_bot_state.last_indicators = <<>>
              \/ Missing({simulated_bot_state.last_indicators[1],
                          simulated_bot_state.last_indicators[2]}))) =>
          NothingEmitted /\ EquityRecorded]_vars


(* ======================================================================= *)
(*                     the live bots and their registry                    *)
(* ======================================================================= *)
simVars == <<cfgVars, historical_data, beVars, rbVars>>

\* no simulator takes part in the behaviours of the live bots
SimulatorsIdle ==
    /\ engine = "None"
    /\ bot_type = "MomentumBot"
    /\ bot_settings = <<>>
    /\ initial_capital = 0
    /\ grid_utils = "None"
    /\ historical_data = <<>>
    /\ pc = "ready"
    /\ run_no = 0
    /\ i = 0
    /\ current_step = 0
    /\ current_time = None
    /\ quote_balance = 0
    /\ base_balance = 0
    /\ portfolio_value = 0
    /\ open_orders = <<>>
    /\ trades = <<>>
    /\ equity_curve = <<>>
    /\ simulated_bot_state = EmptyBotState
    /\ grid_levels = <<>>
    /\ balance = 0
    /\ position_quantity = 0
    /\ average_entry_price = <<0, 1>>
    /\ last_price = 0
    /\ grid_states = <<>>
    /\ last_buy_timestamp = None
    /\ placed = EmptyBag
    /\ results = <<>>

\* the one bot id that the requests name
BotId == "bot"

(* ------------------- backend/bots/base_bot.py: BaseBot ----------------- *)
\* BaseBot.__init__, lines 36-45, and MomentumBot.__init__, lines 38-40; a
\* key that self.state does not hold yet reads "unset"
new_bot(bot_id, binance_client) ==
    [bot_id |-> bot_id, binance_client |-> binance_client, is_running |-> FALSE,
     run_task |-> None, status |-> "unset", position_open |-> FALSE,
     last_signal |-> "None", last_indicators |-> <<>>]

Alive(t) == tasks[t].state # "done"

\* BaseBot.start, lines 60-77, on the instance k of bs: no await suspends it
start(bs, ts, k) ==
    IF bs[k].is_running
    THEN [bots |-> bs, tasks |-> ts, accepted |-> FALSE]
    ELSE IF ~bs[k].binance_client
    THEN [bots |-> [bs EXCEPT ![k].status = "Error: Binance client unavailable"],
          tasks |-> ts, accepted |-> FALSE]
    ELSE [bots |-> [bs EXCEPT ![k].is_running = TRUE, ![k].status = "Running",
                              ![k].run_task = Len(ts) + 1],
          tasks |-> Append(ts, [bot |-> k, state |-> "alive"]),
          accepted |-> TRUE]

\* history: a start() was accepted since the stop() began, resp. while the
\* stop() was suspended
note_start(reqs) ==
    [c \in DOMAIN reqs |->
        IF reqs[c].pc \in {"awaiting_task", "closing"}
        THEN [reqs[c] EXCEPT !.start_accepted = TRUE, !.overlapped = TRUE]
        ELSE IF reqs[c].pc = "returned"
        THEN [reqs[c] EXCEPT !.start_accepted = TRUE] ELSE reqs[c]]

\* a caller invokes start() on the one bot
BaseBot_start ==
    /\ bots # <<>>
    /\ Len(tasks) < MaxTasks
    /\ LET r == start(bots, tasks, 1)
       IN  /\ bots' = r.bots
           /\ tasks' = r.tasks
           /\ requests' = IF r.accepted THEN note_start(requests) ELSE requests
    /\ UNCHANGED <<simVars, running_bots, cycles, live_orders>>

\* _run_logic_wrapper, lines 79-93, and GridBot._run_logic, lines 243-249:
\* the bot after its run task has ended for the given reason
run_logic_wrapper(bot, reason) ==
    LET status == CASE reason = "error" -> "Error: e"
                    [] reason = "setup_failed" -> "Error: Setup Failed"
                    [] OTHER -> bot.status
    IN  [bot EXCEPT !.is_running = FALSE,
                    !.status = IF status = "Running" THEN "Stopped" ELSE status]

\* the cancelled run task is resumed with CancelledError and finishes
task_cancelled ==
    \E t \in DOMAIN tasks :
        /\ tasks[t].state = "cancelling"
        /\ tasks' = [tasks EXCEPT ![t].state = "done"]
        /\ bots' = [bots EXCEPT ![tasks[t].bot] = run_logic_wrapper(@, "cancelled")]
        /\ UNCHANGED <<simVars, running_bots, requests, cycles, live_orders>>

\* the run task ends by itself: an exception leaves _run_logic, the setup of
\* a GridBot fails, or the loop finds is_running false
task_ends ==
    \E t \in DOMAIN tasks :
        /\ tasks[t].state = "alive"
        /\ \E reason \in {"error", "setup_failed"}
                         \cup (IF bots[tasks[t].bot].is_running THEN {} ELSE {"returned"}) :
              bots' = [bots EXCEPT ![tasks[t].bot] = run_logic_wrapper(@, reason)]
        /\ tasks' = [tasks EXCEPT ![t].state = "done"]
        /\ UNCHANGED <<simVars, running_bots, requests, cycles, live_orders>>

\* a request or a call that has not begun
Request(kind) ==
    [kind |-> kind, pc |-> "idle", bot |-> None, awaited |-> None,
     start_accepted |-> FALSE, overlapped |-> FALSE, response |-> "none"]

remove(registry, bot_id) ==
    IF DOMAIN registry \ {bot_id} = {} THEN <<>>
    ELSE [b \in DOMAIN registry \ {bot_id} |-> registry[b]]

\* stop_bot, lines 305-313, resp. a direct call of stop(); then BaseBot.stop,
\* lines 97-109, up to the await of the cancelled task
stop_begin(c) ==
    /\ requests[c].kind \in {"stop_bot", "stop"}
    /\ requests[c].pc = "idle"
    /\ IF requests[c].kind = "stop_bot" /\ BotId \notin DOMAIN running_bots
       THEN /\ requests' = [requests EXCEPT ![c].pc = "returned", ![c].response = "404"]
            /\ UNCHANGED <<bots, tasks, running_bots>>
       ELSE LET k == IF requests[c].kind = "stop_bot" THEN running_bots[BotId] ELSE 1
                t == bots[k].run_task
            IN  IF ~bots[k].is_running \/ t = None
                THEN /\ requests' = [requests EXCEPT ![c].pc = "returned", ![c].bot = k,
                                                     ![c].response = "not running"]
                     /\ running_bots' = IF requests[c].kind = "stop_bot"
                                        THEN remove(running_bots, BotId) ELSE running_bots
                     /\ UNCHANGED <<bots, tasks>>
                ELSE /\ bots' = [bots EXCEPT ![k].is_running = FALSE, ![k].status = "Stopping"]
                     /\ tasks' = [tasks EXCEPT ![t].state =
                                     IF @ = "alive" THEN "cancelling" ELSE @]
                     /\ requests' = [requests EXCEPT ![c].pc = "awaiting_task", ![c].bot = k,
                                                     ![c].awaited = t]
                     /\ UNCHANGED running_bots
    /\ UNCHANGED <<simVars, cycles, live_orders>>

\* BaseBot.stop, lines 110-123: the awaited task is done; up to the await of
\* close_connection()
stop_resume(c) ==
    /\ requests[c].pc = "awaiting_task"
    /\ tasks[requests[c].awaited].state = "done"
    /\ bots' = [bots EXCEPT ![requests[c].bot].run_task = None,
                            ![requests[c].bot].status = "Stopped"]
    /\ requests' = [requests EXCEPT ![c].pc = "closing"]
    /\ UNCHANGED <<simVars, running_bots, tasks, cycles, live_orders>>

\* BaseBot.stop, lines 124-128, returns; stop_bot, lines 315-318, removes
\* the entry of the registry
stop_return(c) ==
    /\ requests[c].pc = "closing"
    /\ requests' = [requests EXCEPT ![c].pc = "returned", ![c].response = "stopped"]
    /\ running_bots' = IF requests[c].kind = "stop_bot"
                       THEN remove(running_bots, BotId) ELSE running_bots
    /\ UNCHANGED <<simVars, bots, tasks, cycles, live_orders>>

BaseBot_stop == \E c \in DOMAIN requests : stop_begin(c) \/ stop_resume(c) \/ stop_return(c)

(* ---------------------- backend/app/bots/routes.py --------------------- *)
\* _create_and_run_bot without its test of the registry
already_running_unchecked(bot_id, registry) == FALSE

\* _create_and_run_bot, line 107, after the client is initialised
already_running(bot_id, registry) == bot_id \in DOMAIN registry

\* start_bot, lines 265-285, and _create_and_run_bot, lines 65-100, up to the
\* await of initialize()
start_bot(r) ==
    /\ requests[r].kind = "start_bot"
    /\ requests[r].pc = "idle"
    /\ IF BotId \in DOMAIN running_bots
       THEN requests' = [requests EXCEPT ![r].pc = "returned",
                                         ![r].response = "400 already running"]
       ELSE \E outcome \in {"404 not found", "400 disabled", "500 no api keys", "initialize"} :
               requests' = IF outcome = "initialize"
                           THEN [requests EXCEPT ![r].pc = "initialize"]
                           ELSE [requests EXCEPT ![r].pc = "returned",
                                                 ![r].response = outcome]
    /\ UNCHANGED <<simVars, running_bots, bots, tasks, cycles, live_orders>>

\* _create_and_run_bot, lines 102-122, and start_bot, lines 287-290, after
\* initialize() has returned: the client it produced, and whether the
\* constructor of the bot class raises
create_and_run_bot(r) ==
    /\ requests[r].pc = "initialize"
    /\ \E client \in BOOLEAN, constructed \in BOOLEAN :
          IF ~client
          THEN /\ requests' = [requests EXCEPT ![r].pc = "returned",
                                               ![r].response = "500 failed"]
               /\ UNCHANGED <<running_bots, bots, tasks>>
          ELSE IF already_running(BotId, running_bots)
          THEN /\ requests' = [requests EXCEPT ![r].pc = "returned",
                                               ![r].bot = running_bots[BotId],
                                               ![r].response = "200 started"]
               /\ UNCHANGED <<running_bots, bots, tasks>>
          ELSE IF ~constructed
          THEN /\ requests' = [requests EXCEPT ![r].pc = "returned",
                                               ![r].response = "500 failed"]
               /\ UNCHANGED <<running_bots, bots, tasks>>
          ELSE /\ Len(tasks) < MaxTasks
               /\ LET k == Len(bots) + 1
                      started == start(Append(bots, new_bot(BotId, TRUE)), tasks, k)
                  IN  /\ bots' = started.bots
                      /\ tasks' = started.tasks
                      /\ running_bots' = (BotId :> k) @@ running_bots
                      /\ requests' = [requests EXCEPT ![r].pc = "returned", ![r].bot = k,
                                                      ![r].response = "200 created"]
    /\ UNCHANGED <<simVars, cycles, live_orders>>

start_bot_request == \E r \in DOMAIN requests : start_bot(r) \/ create_and_run_bot(r)

\* the registry is empty and MaxRequests start and stop requests for the
\* same bot id arrive
InitRegistry ==
    /\ SimulatorsIdle
    /\ running_bots = <<>>
    /\ bots = <<>>
    /\ tasks = <<>>
    /\ requests \in [1..MaxRequests -> {Request("start_bot"), Request("stop_bot")}]
    /\ cycles = <<>>
    /\ live_orders = <<>>

NextRegistry == start_bot_request \/ BaseBot_stop \/ task_cancelled \/ task_ends

SpecRegistry == InitRegistry /\ [][NextRegistry]_vars

\* one bot is constructed; start() is called up to MaxTasks times and stop()
\* MaxRequests times, in any order and overlap
InitBaseBot ==
    /\ SimulatorsIdle
    /\ running_bots = <<>>
    /\ \E client \in BOOLEAN : bots = << new_bot(BotId, client) >>
    /\ tasks = <<>>
    /\ requests = [c \in 1..MaxRequests |-> Request("stop")]
    /\ cycles = <<>>
    /\ live_orders = <<>>

NextBaseBot == BaseBot_start \/ BaseBot_stop \/ task_cancelled \/ task_ends

SpecBaseBot == InitBaseBot /\ [][NextBaseBot]_vars



(* ================== concurrent start requests for one id =============== *)
OnlyStartRequests == \A r \in DOMAIN requests : requests[r].kind = "start_bot"

\* C36: for any interleaving of concurrent start requests for the same bot
\* id, each of which may be suspended in the initialisation of its client,
\* at most one bot instance is created, registered in running_bots and
\* started for that id, and a later request never replaces the registered
\* instance.
C36_OneInstance ==
    [][(OnlyStartRequests /\ NextRegistry) =>
          /\ Len(bots') <= 1
          /\ Len(tasks') <= 1
          /\ BotId \in DOMAIN running_bots =>
                /\ BotId \in DOMAIN running_bots'
                /\ running_bots'[BotId] = running_bots[BotId]]_vars

\* two start requests were suspended in initialize() together: one has
\* created and registered the bot, the other was handed that instance
C36_Witness ==
    /\ OnlyStartRequests
    /\ \E r1, r2 \in DOMAIN requests :
          /\ requests[r1].response = "200 created"
          /\ requests[r2].response = "200 started"
          /\ requests[r2].bot = requests[r1].bot
    /\ BotId \in DOMAIN running_bots
    /\ bots[running_bots[BotId]].is_running



(* ===================== one tracked run task per bot ==================== *)
AliveTasks(k) == { t \in DOMAIN tasks : tasks[t].bot = k /\ Alive(t) }

OneTaskAlive(k) == Cardinality(AliveTasks(k)) <= 1

Tracked(k) == bots[k].is_running => AliveTasks(k) = {bots[k].run_task}

\* a stop() that did its work has returned and no start() was accepted since
\* it began
StoppedFor(c) ==
    /\ requests[c].kind = "stop" /\ requests[c].response = "stopped"
    /\ ~requests[c].start_accepted

Stopped(k) == AliveTasks(k) = {} /\ ~bots[k].is_running /\ bots[k].status = "Stopped"

\* C37: for any interleaving of start() and stop() calls on one BaseBot, at
\* most one run task is alive at a time, and whenever is_running is true
\* _run_task refers to that live task; after a stop() has returned with no
\* start() accepted since it began, no run task is alive, is_running is false
\* and the status is 'Stopped'.
C37_OneRunTask ==
    \A k \in DOMAIN bots :
        /\ OneTaskAlive(k)
        /\ Tracked(k)
        /\ \A c \in DOMAIN requests : (StoppedFor(c) /\ requests[c].bot = k) => Stopped(k)

\* the same for the calls that do not overlap: no start() is accepted while
\* a stop() is suspended
C37_Observed ==
    (\A c \in DOMAIN requests : ~requests[c].overlapped) => C37_OneRunTask

\* the overlap: a start() was accepted while a stop() awaited the cancelled
\* task, and the task of that start() is alive and not tracked
C37_Untracked ==
    \E c \in DOMAIN requests, t \in DOMAIN tasks :
        /\ requests[c].overlapped /\ requests[c].pc = "returned"
        /\ Alive(t) /\ bots[tasks[t].bot].run_task = None



(* =================== the registry and the running bots ================= *)
Registered == BotId \in DOMAIN running_bots

\* a stop request for the instance k is between its first step and its return
StopUnderWay(k) ==
    \E c \in DOMAIN requests :
        requests[c].pc \in {"awaiting_task", "closing"} /\ requests[c].bot = k

StillUnderWay(k) ==
    \E c \in DOMAIN requests :
        requests'[c].pc \in {"awaiting_task", "closing"} /\ requests'[c].bot = k

\* the step rejects a start request as 'already running'
Rejects(r) ==
    requests[r].response = "none" /\ requests'[r].response = "400 already running"

\* C38: a bot id is present in running_bots only while the bot's is_running
\* flag is true (or a stop request is removing it); once the background task
\* of the bot has ended for any reason its entry is removed, so that a start
\* request for the id is rejected as 'already running' only while the bot
\* runs.
C38_RegistryTracksRunning ==
    [][/\ Registered' =>
             \/ bots'[running_bots'[BotId]].is_running
             \/ StillUnderWay(running_bots'[BotId])
       /\ \A r \in DOMAIN requests :
             Rejects(r) => \/ bots[running_bots[BotId]].is_running
                           \/ StopUnderWay(running_bots[BotId])]_vars

\* what the code does: an entry is removed by a returning stop request only
C38_Observed ==
    [][(Registered /\ ~Registered') =>
          \E c \in DOMAIN requests :
              /\ requests[c].kind = "stop_bot"
              /\ requests[c].pc # "returned" /\ requests'[c].pc = "returned"]_vars

\* the run task of the registered bot has ended by itself and a start
\* request for the id was rejected as 'already running'
C38_Rejected ==
    /\ Registered
    /\ ~bots[running_bots[BotId]].is_running
    /\ AliveTasks(running_bots[BotId]) = {}
    /\ \A c \in DOMAIN requests : requests[c].kind = "start_bot"
    /\ \E r \in DOMAIN requests : requests[r].response = "400 already running"



(* ----------------- backend/bots/momentum_bot.py: the cycle ------------- *)
\* the indicator values <<RSI, MACD line, signal line, short EMA, long EMA>>
\* that a cycle computes on the k-lines it has fetched; the last one stands
\* for an indicator function raising
LiveReadings ==
    {<<50, 1, 2, 2, 1>>, <<50, 2, 1, 2, 1>>, <<50, 1, 2, 1, 2>>, <<50, 1, 1, 2, 1>>,
     <<NaN, NaN, NaN, NaN, NaN>>, <<Raise, Raise, Raise, Raise, Raise>>}

\* _calculate_indicators leaving state['last_indicators'] as it was
keep_indicators(last_indicators, indicator_values) == last_indicators

\* _calculate_indicators, line 105: self.state['last_indicators'] = indicator_values
store_indicators(last_indicators, indicator_values) == indicator_values

\* _generate_signal, lines 113-141, on the values of the cycle and on
\* self.state['last_indicators'] as it is when the function runs
generate_signal(indicators_data, last_indicators) ==
    LET last_macd == IF last_indicators = <<>> THEN 0 ELSE last_indicators[2]
        last_macd_signal == IF last_indicators = <<>> THEN 0 ELSE last_indicators[3]
        macd_crossed_up == /\ Gt(indicators_data[2], indicators_data[3])
                           /\ Le(last_macd, last_macd_signal)
        rsi_ok_buy == Lt(indicators_data[1], DEFAULT_RSI_OVERBOUGHT)
        ema_confirm_buy == Gt(indicators_data[4], indicators_data[5])
        macd_crossed_down == /\ Lt(indicators_data[2], indicators_data[3])
                             /\ Ge(last_macd, last_macd_signal)
        rsi_ok_sell == Gt(indicators_data[1], DEFAULT_RSI_OVERSOLD)
        ema_confirm_sell == Lt(indicators_data[4], indicators_data[5])
    IN  IF macd_crossed_up /\ rsi_ok_buy /\ ema_confirm_buy THEN "BUY"
        ELSE IF macd_crossed_down /\ rsi_ok_sell /\ ema_confirm_sell THEN "SELL"
        ELSE "None"

\* _execute_trade, lines 144-166: <<orders placed, position_open>> when
\* place_order returns the given result
execute_trade(signal, position_open, order_result) ==
    IF signal = "BUY" /\ ~position_open
    THEN << <<[side |-> "BUY", type |-> "MARKET"]>>, order_result >>
    ELSE IF signal = "SELL" /\ position_open
    THEN << <<[side |-> "SELL", type |-> "MARKET"]>>, ~order_result >>
    ELSE << <<>>, position_open >>

\* _run_logic, lines 186-216: one iteration of the loop of the running bot;
\* fetched is false when _fetch_and_prepare_data returns None
momentum_cycle ==
    /\ bots # <<>>
    /\ bots[1].is_running
    /\ Len(cycles) < MaxCycles
    /\ \E fetched \in BOOLEAN, reading \in LiveReadings, order_result \in BOOLEAN :
          LET bot == bots[1]
              calculated == fetched /\ Raise \notin { reading[n] : n \in 1..5 }
              stored == store_indicators(bot.last_indicators, reading)
              signal == generate_signal(reading, stored)
              traded == execute_trade(signal, bot.position_open, order_result)
          IN  IF ~calculated
              THEN /\ cycles' = Append(cycles, <<>>)
                   /\ UNCHANGED <<bots, live_orders>>
              ELSE /\ cycles' = Append(cycles, reading)
                   /\ bots' = [bots EXCEPT ![1].last_indicators = stored,
                                           ![1].last_signal = signal,
                                           ![1].position_open =
                                               IF signal = "None" THEN @ ELSE traded[2]]
                   /\ live_orders' = IF signal = "None" THEN live_orders
                                     ELSE live_orders \o traded[1]
    /\ UNCHANGED <<simVars, running_bots, tasks, requests>>

\* a MomentumBot has been constructed and started
InitCycle ==
    /\ SimulatorsIdle
    /\ running_bots = <<>>
    /\ bots = start(<< new_bot(BotId, TRUE) >>, <<>>, 1).bots
    /\ tasks = start(<< new_bot(BotId, TRUE) >>, <<>>, 1).tasks
    /\ requests = <<>>
    /\ cycles = <<>>
    /\ live_orders = <<>>

SpecCycle == InitCycle /\ [][momentum_cycle]_vars

====
